---- MODULE Spec2Model ----
(***************************************************************************)
(* A model of msteams/__init__.py: the field-validated CardObject engine,  *)
(* the concrete card element kinds built on it, their rendering and the    *)
(* delivery of a card to a webhook.                                        *)
(*                                                                         *)
(* Python objects live in a heap: objs[i] is the CardObject with identity  *)
(* i, lists[j] the list or tuple with identity j.  A value is a record     *)
(* [t, s, n, d]: t is the runtime type tag, s the text of a str, n the     *)
(* number of an int/bool or the identity of an object/list, d the pairs of *)
(* a dict, in insertion order.                                             *)
(***************************************************************************)
EXTENDS Integers, Sequences, FiniteSets, TLC

VARIABLES
    objs,         \* heap of CardObject instances: [kind, payload, attrs]
    lists,        \* heap of list/tuple objects: [tuple, items]
    inputFields,  \* Input._fields, the class-level table shared by all inputs
    last,         \* what the last operation was given and how it ended
    steps,        \* number of operations performed so far
    requests,     \* the HTTP requests urlopen was called with, in order
    opener        \* the proxies of the opener install_opener installed

vars == <<objs, lists, inputFields, last, steps, requests, opener>>

----------------------------------------------------------------------------
(* Bounds of the model *)

MaxObjs == 4
MaxLists == 3
MaxSteps == 4

----------------------------------------------------------------------------
(* Values *)

PyStr(x) == [t |-> "str", s |-> x, n |-> 0, d |-> <<>>]
PyBool(b) == [t |-> "bool", s |-> "", n |-> IF b THEN 1 ELSE 0, d |-> <<>>]
PyInt(i) == [t |-> "int", s |-> "", n |-> i, d |-> <<>>]
PyRef(i) == [t |-> "obj", s |-> "", n |-> i, d |-> <<>>]
\* a bytes object, n the number its bytes spell in big-endian order
PyBytes(i) == [t |-> "bytes", s |-> "", n |-> i, d |-> <<>>]
PyList(j) == [t |-> "list", s |-> "", n |-> j, d |-> <<>>]
PyDict(pairs) == [t |-> "dict", s |-> "", n |-> 0, d |-> pairs]
PyNone == [t |-> "NoneType", s |-> "", n |-> 0, d |-> <<>>]

\* An argument as the caller writes it: a value, or a list/tuple display
\* whose evaluation creates a new list object.
ArgVal(v) == [form |-> "val", v |-> v, items |-> <<>>]
ArgList(items) == [form |-> "list", v |-> PyNone, items |-> items]
ArgTuple(items) == [form |-> "tuple", v |-> PyNone, items |-> items]

\* The interpreter's state as the pure operators pass it along.
World(o, l, f) == [objs |-> o, lists |-> l, inputFields |-> f]

\* How a call ends: err is the exception class ("" when it returns), what
\* the type a TypeError reports or the reason of a ValueError, val the
\* value returned, W the state the call leaves.
Ok(W, v) == [err |-> "", what |-> "", val |-> v, W |-> W]
Raise(W, e, what) == [err |-> e, what |-> what, val |-> PyNone, W |-> W]

Min(S) == CHOOSE x \in S : \A y \in S : x <= y

----------------------------------------------------------------------------
(* Field = namedtuple(expected_type, allow_iter, valid_values); valid = {} *)
(* stands for valid_values = None.                                         *)

Field(name, type, iter, valid) ==
    [name |-> name, type |-> type, iter |-> iter, valid |-> valid]

ImageObject_fields ==
    << Field("image", "str", FALSE, {}), Field("title", "str", FALSE, {}) >>

Fact_fields ==
    << Field("name", "str", FALSE, {}), Field("value", "str", FALSE, {}) >>

UriTarget_fields ==
    << Field("os", "str", FALSE, {}), Field("uri", "str", FALSE, {}) >>

OpenUriAction_fields ==
    << Field("name", "str", FALSE, {}), Field("targets", "UriTarget", TRUE, {}) >>

Header_fields ==
    << Field("name", "str", FALSE, {}), Field("value", "str", FALSE, {}) >>

HttpPostAction_fields ==
    << Field("name", "str", FALSE, {}),
       Field("target", "str", FALSE, {}),
       Field("headers", "Header", TRUE, {}),
       Field("body", "str", FALSE, {}),
       Field("body_content_type", "str", FALSE, {}) >>

\* Input._fields as the class statement leaves it
Input_fields ==
    << Field("id", "str", FALSE, {}),
       Field("is_required", "bool", FALSE, {}),
       Field("title", "str", FALSE, {}),
       Field("value", "str", FALSE, {}) >>

\* sub_fields of TextInput.__init__
TextInput_sub_fields ==
    << Field("is_multiline", "bool", FALSE, {}),
       Field("max_length", "int", FALSE, {}) >>

\* the entry DateInput.__init__ adds
DateInput_sub_fields ==
    << Field("include_time", "bool", FALSE, {}) >>

\* sub_fields of MultipleChoiceInput.__init__
MultipleChoiceInput_sub_fields ==
    << Field("choices", "Choice", TRUE, {}),
       Field("is_multi_select", "bool", FALSE, {}),
       Field("style", "str", FALSE, {"normal", "expanded"}) >>

Choice_fields ==
    << Field("display", "str", FALSE, {}), Field("value", "str", FALSE, {}) >>

ActionCard_fields ==
    << Field("name", "str", FALSE, {}),
       Field("inputs", "Input", TRUE, {}),
       Field("actions", "Action", TRUE, {}) >>

CardSection_fields ==
    << Field("title", "str", FALSE, {}),
       Field("start_group", "bool", FALSE, {}),
       Field("activity_title", "str", FALSE, {}),
       Field("activity_subtitle", "str", FALSE, {}),
       Field("activity_image", "str", FALSE, {}),
       Field("activity_text", "str", FALSE, {}),
       Field("hero_image", "ImageObject", FALSE, {}),
       Field("text", "str", FALSE, {}),
       Field("facts", "Fact", TRUE, {}),
       Field("potential_action", "Action", TRUE, {}) >>

MessageCard_fields ==
    << Field("summary", "str", FALSE, {}),
       Field("title", "str", FALSE, {}),
       Field("text", "str", FALSE, {}),
       Field("theme_color", "str", FALSE, {}),
       Field("sections", "CardSection", TRUE, {}),
       Field("potential_action", "Action", TRUE, {}) >>

InputKinds == {"Input", "TextInput", "DateInput", "MultipleChoiceInput"}
ActionKinds == {"OpenUriAction", "HttpPostAction", "ActionCard"}
DataKinds == {"ImageObject", "Fact", "UriTarget", "Header", "Choice"}
Kinds == InputKinds \cup ActionKinds \cup DataKinds \cup {"CardSection", "MessageCard"}

\* self._fields: the class attribute the instance's class resolves to
Fields(W, kind) ==
    CASE kind \in InputKinds -> W.inputFields
      [] kind = "ImageObject" -> ImageObject_fields
      [] kind = "Fact" -> Fact_fields
      [] kind = "UriTarget" -> UriTarget_fields
      [] kind = "OpenUriAction" -> OpenUriAction_fields
      [] kind = "Header" -> Header_fields
      [] kind = "HttpPostAction" -> HttpPostAction_fields
      [] kind = "Choice" -> Choice_fields
      [] kind = "ActionCard" -> ActionCard_fields
      [] kind = "CardSection" -> CardSection_fields
      [] kind = "MessageCard" -> MessageCard_fields

Names(fs) == [i \in 1..Len(fs) |-> fs[i].name]
HasField(fs, f) == \E i \in 1..Len(fs) : fs[i].name = f
FieldOf(fs, f) == fs[CHOOSE i \in 1..Len(fs) : fs[i].name = f]

\* OrderedDict.update / item assignment: an existing key keeps its place
\* and takes the new value, a new key goes to the end.
RECURSIVE DictUpdate(_, _)
DictUpdate(fs, new) ==
    IF new = <<>> THEN fs
    ELSE LET e == Head(new)
             fs1 == IF HasField(fs, e.name)
                    THEN [i \in 1..Len(fs) |-> IF fs[i].name = e.name THEN e ELSE fs[i]]
                    ELSE Append(fs, e)
         IN DictUpdate(fs1, Tail(new))

----------------------------------------------------------------------------
(* Runtime types *)

\* type(value).__name__
TypeName(W, v) ==
    CASE v.t = "obj" -> W.objs[v.n].kind
      [] v.t = "list" -> IF W.lists[v.n].tuple THEN "tuple" ELSE "list"
      [] OTHER -> v.t

\* the classes an instance of the class named kind is an instance of
Bases(kind) ==
    {kind, "CardObject"}
        \cup (IF kind \in ActionKinds THEN {"Action"} ELSE {})
        \cup (IF kind \in InputKinds THEN {"Input"} ELSE {})

\* isinstance(value, exp_type); bool is a subclass of int
IsInstance(W, v, type) ==
    CASE type = "str" -> v.t = "str"
      [] type = "bool" -> v.t = "bool"
      [] type = "int" -> v.t \in {"int", "bool"}
      [] OTHER -> v.t = "obj" /\ type \in Bases(W.objs[v.n].kind)

\* _is_iter: type(val) in [tuple, list]
IsIter(v) == v.t = "list"

\* hasattr(exp_type, "from_" + type(value).__name__)
HasConverter(type, tn) ==
    CASE type = "ImageObject" -> tn \in {"dict", "str"}
      [] type = "Fact" -> tn \in {"dict", "OrderedDict"}
      [] type = "UriTarget" -> tn \in {"dict", "str"}
      [] type = "Header" -> tn \in {"dict"}
      [] type = "Choice" -> tn \in {"dict"}
      [] type \in {"int", "bool"} -> tn = "bytes"
      [] OTHER -> FALSE

----------------------------------------------------------------------------
(* The instance dictionary _attrs, in insertion order: a sequence of       *)
(* [k, v] entries with distinct keys.                                      *)

HasKey(attrs, k) == \E i \in 1..Len(attrs) : attrs[i].k = k
Get(attrs, k) == attrs[CHOOSE i \in 1..Len(attrs) : attrs[i].k = k].v
Put(attrs, k, v) ==
    IF HasKey(attrs, k)
    THEN [i \in 1..Len(attrs) |-> IF attrs[i].k = k THEN [k |-> k, v |-> v] ELSE attrs[i]]
    ELSE Append(attrs, [k |-> k, v |-> v])
Keys(attrs) == {attrs[i].k : i \in 1..Len(attrs)}

NewList(W, tuple, items) ==
    [W EXCEPT !.lists = Append(@, [tuple |-> tuple, items |-> items])]

----------------------------------------------------------------------------
(* Constructor signatures and the reserved payload entries *)

\* parameters without a default
Required(kind) ==
    CASE kind = "ImageObject" -> <<"image">>
      [] kind = "Fact" -> <<"name", "value">>
      [] kind = "UriTarget" -> <<"os", "uri">>
      [] kind = "Header" -> <<"name", "value">>
      [] kind = "Choice" -> <<"display", "value">>
      [] kind = "OpenUriAction" -> <<"name", "targets">>
      [] kind = "HttpPostAction" -> <<"name", "target">>
      [] OTHER -> <<>>

\* parameters with a default
Optional(kind) ==
    CASE kind = "ImageObject" -> {"title"}
      [] kind = "MessageCard" -> {"summary"}
      [] OTHER -> {}

\* whether __init__ takes **kwargs
VarKw(kind) ==
    kind \in InputKinds \cup {"HttpPostAction", "ActionCard", "CardSection", "MessageCard"}

Range(seq) == {seq[i] : i \in 1..Len(seq)}
Named(kind) == Range(Required(kind)) \cup Optional(kind)
Given(args, k) == \E i \in 1..Len(args) : args[i].k = k
ArgOf(args, k) == args[CHOOSE i \in 1..Len(args) : args[i].k = k].v
Entry(k, v) == [k |-> k, v |-> v]

\* the entries __init__ puts in self._payload
Reserved(kind) ==
    CASE kind = "OpenUriAction" -> << Entry("@type", PyStr("OpenUri")) >>
      [] kind = "HttpPostAction" -> << Entry("@type", PyStr("HttpPOST")) >>
      [] kind = "TextInput" -> << Entry("@type", PyStr("TextInput")) >>
      [] kind = "DateInput" -> << Entry("@type", PyStr("DateInput")) >>
      [] kind = "MultipleChoiceInput" -> << Entry("@type", PyStr("MultipleChoiceInput")) >>
      [] kind = "ActionCard" -> << Entry("@type", PyStr("ActionCard")) >>
      [] kind = "MessageCard" ->
            << Entry("@type", PyStr("MessageCard")),
               Entry("@context", PyStr("https://schema.org/extensions")) >>
      [] OTHER -> <<>>

\* the entries __init__ adds to the shared table before anything else
SubFields(kind) ==
    CASE kind = "TextInput" -> TextInput_sub_fields
      [] kind = "DateInput" -> DateInput_sub_fields
      [] kind = "MultipleChoiceInput" -> MultipleChoiceInput_sub_fields
      [] OTHER -> <<>>

\* the _set_field calls of __init__, in the order it makes them
SetOrder(kind, args) ==
    LET IsKw(a) == a.k \notin Named(kind)
        kw == SelectSeq(args, IsKw)
        pos == [i \in 1..Len(Required(kind)) |->
                   Entry(Required(kind)[i], ArgOf(args, Required(kind)[i]))]
    IN CASE kind = "ImageObject" ->
                IF Given(args, "title") /\ ArgOf(args, "title") # PyNone
                THEN pos \o << Entry("title", ArgOf(args, "title")) >>
                ELSE pos
         [] kind = "MessageCard" ->
                kw \o << Entry("summary", IF Given(args, "summary")
                                          THEN ArgOf(args, "summary")
                                          ELSE PyStr("Summary")) >>
         [] OTHER -> kw \o pos

----------------------------------------------------------------------------
(* The engine: _check_value, _set_field, the converters and constructors   *)

RECURSIVE CheckValue(_, _, _, _), SetFields(_, _, _), Construct(_, _, _)
RECURSIVE FromDict(_, _, _, _), Convert(_, _, _)

\* the indices of True in wrong_types
WrongTypes(W, items, type) ==
    {i \in 1..Len(items) : ~IsInstance(W, items[i], type)}

\* the last member of the wrong type, not the first
WrongType_Last(W, items, type) ==
    TypeName(W, items[CHOOSE i \in WrongTypes(W, items, type) :
                        \A j \in WrongTypes(W, items, type) : j <= i])

\* type(value[wrong_types.index(True)])
WrongType(W, items, type) ==
    TypeName(W, items[Min(WrongTypes(W, items, type))])

\* _check_value without the valid_values test
CheckValid_Any(W, fd, c) ==
    IF c.err # "" THEN Raise(W, c.err, c.what)
    ELSE IF ~IsIter(c.val) /\ fd.iter
         THEN Ok(NewList(c.W, FALSE, <<c.val>>), PyList(Len(c.W.lists) + 1))
    ELSE c

\* _check_value from the valid_values test on: c is how the isinstance
\* test and the converter ended
CheckValid(W, fd, c) ==
    IF c.err # "" THEN Raise(W, c.err, c.what)
    ELSE IF fd.valid # {} /\ ~(c.val.t = "str" /\ c.val.s \in fd.valid)
         THEN Raise(W, "ValueError", "invalid value")
    ELSE IF ~IsIter(c.val) /\ fd.iter
         THEN Ok(NewList(c.W, FALSE, <<c.val>>), PyList(Len(c.W.lists) + 1))
    ELSE c

\* _check_value once the field is known: fd is self._fields[field]
CheckType(W, fd, value) ==
    IF IsIter(value) /\ fd.iter
    THEN IF WrongTypes(W, W.lists[value.n].items, fd.type) # {}
         THEN Raise(W, "TypeError", WrongType(W, W.lists[value.n].items, fd.type))
         ELSE Ok(W, value)
    ELSE CheckValid(W, fd,
            IF IsInstance(W, value, fd.type) THEN Ok(W, value)
            ELSE IF ~HasConverter(fd.type, TypeName(W, value))
                 THEN Raise(W, "TypeError", TypeName(W, value))
                 ELSE Convert(W, fd.type, value))

\* CardObject._check_value
CheckValue(W, kind, field, value) ==
    IF ~HasField(Fields(W, kind), field) THEN Raise(W, "ValueError", "Unknown field")
    ELSE CheckType(W, FieldOf(Fields(W, kind), field), value)

\* self._attrs[field] = value, r being how _check_value ended
Store(o, field, r) ==
    IF r.err # "" THEN r
    ELSE Ok([r.W EXCEPT !.objs[o].attrs = Put(@, field, r.val)], r.val)

\* storing the value that was given, not the sanitized one
Store_Raw(W, o, field, value, r) ==
    IF r.err # "" THEN r
    ELSE Ok([W EXCEPT !.objs[o].attrs = Put(@, field, value)], value)

\* _set_field storing the value it was given
SetField_Raw(W, o, field, value) ==
    Store_Raw(W, o, field, value, CheckValue(W, W.objs[o].kind, field, value))

\* CardObject._set_field
SetField(W, o, field, value) ==
    Store(o, field, CheckValue(W, W.objs[o].kind, field, value))

\* consecutive _set_field calls on self, r being how the calls before
\* ended; the first exception ends them
SetFields(r, o, kvs) ==
    IF r.err # "" \/ kvs = <<>> THEN r
    ELSE SetFields(SetField(r.W, o, Head(kvs).k, Head(kvs).v), o, Tail(kvs))

\* the end of __init__: the instance is returned unless a _set_field raised
Instance(W0, kind, r) ==
    IF r.err # "" THEN Raise(W0, r.err, r.what)
    ELSE Ok([r.W EXCEPT !.objs[Len(W0.objs) + 1].payload = Reserved(kind)],
            PyRef(Len(W0.objs) + 1))

\* the body of __init__ on a new instance; W0 is the state with the shared
\* table extended
InitBody(W0, kind, args) ==
    Instance(W0, kind,
        SetFields(Ok([W0 EXCEPT !.objs =
                         Append(@, [kind |-> kind, payload |-> <<>>, attrs |-> <<>>])],
                     PyNone),
                  Len(W0.objs) + 1, SetOrder(kind, args)))

\* kind(**args): the binding of the arguments, then the body of __init__.
\* An input kind's __init__ first extends the shared table, and that stays
\* when a later _set_field raises; the half-built instance does not.
Construct(W, kind, args) ==
    IF \/ \E i \in 1..Len(Required(kind)) : ~Given(args, Required(kind)[i])
       \/ ~VarKw(kind) /\ \E i \in 1..Len(args) : args[i].k \notin Named(kind)
    THEN Raise(W, "TypeError", "arguments")
    ELSE InitBody([W EXCEPT !.inputFields = DictUpdate(@, SubFields(kind))], kind, args)

\* the list comprehension of from_dict went as far as acc, r being how the
\* constructor call for the pair before ended
FromDictNext(r, kind, pairs, acc) ==
    IF r.err # "" THEN r
    ELSE FromDict(r.W, kind, pairs, Append(acc, r.val))

\* from_dict of Fact, UriTarget, Header and Choice: one instance per pair
FromDict(W, kind, pairs, acc) ==
    IF pairs = <<>> THEN Ok(NewList(W, FALSE, acc), PyList(Len(W.lists) + 1))
    ELSE FromDictNext(
            Construct(W, kind,
                << Entry(Required(kind)[1], PyStr(Head(pairs)[1])),
                   Entry(Required(kind)[2], PyStr(Head(pairs)[2])) >>),
            kind, Tail(pairs), acc)

\* from_dict of ImageObject with the pair read as (image, title)
ConvertArgs_KeyAsImage(type, value) ==
    CASE type = "ImageObject" /\ value.t = "dict" ->
            << Entry("image", PyStr(value.d[1][1])),
               Entry("title", PyStr(value.d[1][2])) >>
      [] type = "ImageObject" /\ value.t = "str" ->
            << Entry("image", value) >>
      [] type = "UriTarget" /\ value.t = "str" ->
            << Entry("os", PyStr("default")), Entry("uri", value) >>

\* the arguments a converter that makes one instance calls the class with
ConvertArgs(type, value) ==
    CASE type = "ImageObject" /\ value.t = "dict" ->
            << Entry("image", PyStr(value.d[1][2])),
               Entry("title", PyStr(value.d[1][1])) >>
      [] type = "ImageObject" /\ value.t = "str" ->
            << Entry("image", value) >>
      [] type = "UriTarget" /\ value.t = "str" ->
            << Entry("os", PyStr("default")), Entry("uri", value) >>

\* getattr(exp_type, "from_" + type(value).__name__)(value)
Convert(W, type, value) ==
    IF type = "int" THEN Ok(W, PyInt(value.n))
    ELSE IF type = "bool" THEN Ok(W, PyBool(value.n # 0))
    ELSE IF type = "ImageObject" /\ value.t = "dict" /\ value.d = <<>>
    THEN Raise(W, "IndexError", "")
    ELSE IF (type = "ImageObject" /\ value.t \in {"dict", "str"})
              \/ (type = "UriTarget" /\ value.t = "str")
         THEN Construct(W, type, ConvertArgs(type, value))
    ELSE FromDict(W, type, value.d, <<>>)

----------------------------------------------------------------------------
(* Strings as characters.  Field names are atomic in the state; Chars      *)
(* spells a name out where the code works on its characters.               *)

Chars(name) ==
    CASE name = "image" ->
            << "i", "m", "a", "g", "e" >>
      [] name = "title" ->
            << "t", "i", "t", "l", "e" >>
      [] name = "name" ->
            << "n", "a", "m", "e" >>
      [] name = "value" ->
            << "v", "a", "l", "u", "e" >>
      [] name = "os" ->
            << "o", "s" >>
      [] name = "uri" ->
            << "u", "r", "i" >>
      [] name = "targets" ->
            << "t", "a", "r", "g", "e", "t", "s" >>
      [] name = "target" ->
            << "t", "a", "r", "g", "e", "t" >>
      [] name = "headers" ->
            << "h", "e", "a", "d", "e", "r", "s" >>
      [] name = "body" ->
            << "b", "o", "d", "y" >>
      [] name = "body_content_type" ->
            << "b", "o", "d", "y", "_", "c", "o", "n", "t", "e", "n", "t", "_", "t", "y", "p", "e" >>
      [] name = "id" ->
            << "i", "d" >>
      [] name = "is_required" ->
            << "i", "s", "_", "r", "e", "q", "u", "i", "r", "e", "d" >>
      [] name = "is_multiline" ->
            << "i", "s", "_", "m", "u", "l", "t", "i", "l", "i", "n", "e" >>
      [] name = "max_length" ->
            << "m", "a", "x", "_", "l", "e", "n", "g", "t", "h" >>
      [] name = "include_time" ->
            << "i", "n", "c", "l", "u", "d", "e", "_", "t", "i", "m", "e" >>
      [] name = "choices" ->
            << "c", "h", "o", "i", "c", "e", "s" >>
      [] name = "is_multi_select" ->
            << "i", "s", "_", "m", "u", "l", "t", "i", "_", "s", "e", "l", "e", "c", "t" >>
      [] name = "style" ->
            << "s", "t", "y", "l", "e" >>
      [] name = "display" ->
            << "d", "i", "s", "p", "l", "a", "y" >>
      [] name = "inputs" ->
            << "i", "n", "p", "u", "t", "s" >>
      [] name = "actions" ->
            << "a", "c", "t", "i", "o", "n", "s" >>
      [] name = "start_group" ->
            << "s", "t", "a", "r", "t", "_", "g", "r", "o", "u", "p" >>
      [] name = "activity_title" ->
            << "a", "c", "t", "i", "v", "i", "t", "y", "_", "t", "i", "t", "l", "e" >>
      [] name = "activity_subtitle" ->
            << "a", "c", "t", "i", "v", "i", "t", "y", "_", "s", "u", "b", "t", "i", "t", "l", "e" >>
      [] name = "activity_image" ->
            << "a", "c", "t", "i", "v", "i", "t", "y", "_", "i", "m", "a", "g", "e" >>
      [] name = "activity_text" ->
            << "a", "c", "t", "i", "v", "i", "t", "y", "_", "t", "e", "x", "t" >>
      [] name = "hero_image" ->
            << "h", "e", "r", "o", "_", "i", "m", "a", "g", "e" >>
      [] name = "text" ->
            << "t", "e", "x", "t" >>
      [] name = "facts" ->
            << "f", "a", "c", "t", "s" >>
      [] name = "potential_action" ->
            << "p", "o", "t", "e", "n", "t", "i", "a", "l", "_", "a", "c", "t", "i", "o", "n" >>
      [] name = "summary" ->
            << "s", "u", "m", "m", "a", "r", "y" >>
      [] name = "theme_color" ->
            << "t", "h", "e", "m", "e", "_", "c", "o", "l", "o", "r" >>
      [] name = "sections" ->
            << "s", "e", "c", "t", "i", "o", "n", "s" >>
      [] name = "@type" ->
            << "@", "t", "y", "p", "e" >>
      [] name = "@context" ->
            << "@", "c", "o", "n", "t", "e", "x", "t" >>
      [] name = "bogus" ->
            << "b", "o", "g", "u", "s" >>

LowerCase ==
    << "a", "b", "c", "d", "e", "f", "g", "h", "i", "j", "k", "l", "m",
       "n", "o", "p", "q", "r", "s", "t", "u", "v", "w", "x", "y", "z" >>
UpperCase ==
    << "A", "B", "C", "D", "E", "F", "G", "H", "I", "J", "K", "L", "M",
       "N", "O", "P", "Q", "R", "S", "T", "U", "V", "W", "X", "Y", "Z" >>

IsLower(c) == \E i \in 1..Len(LowerCase) : LowerCase[i] = c
IsUpper(c) == \E i \in 1..Len(UpperCase) : UpperCase[i] = c
IsCased(c) == IsLower(c) \/ IsUpper(c)
ToUpper(c) == IF IsLower(c) THEN UpperCase[CHOOSE i \in 1..Len(LowerCase) : LowerCase[i] = c] ELSE c
ToLower(c) == IF IsUpper(c) THEN LowerCase[CHOOSE i \in 1..Len(UpperCase) : UpperCase[i] = c] ELSE c

\* str.upper() in place of str.title()
Title_Upper(w) == [i \in 1..Len(w) |-> ToUpper(w[i])]

\* str.title(): a cased character is upper-cased after an uncased one (or
\* at the start) and lower-cased after a cased one
Title(w) ==
    [i \in 1..Len(w) |->
        IF i > 1 /\ IsCased(w[i - 1]) THEN ToLower(w[i]) ELSE ToUpper(w[i])]

\* str.split(sep): the pieces between the separators, empty ones included
RECURSIVE Split(_, _, _)
Split(chars, sep, word) ==
    IF chars = <<>> THEN << word >>
    ELSE IF Head(chars) = sep THEN << word >> \o Split(Tail(chars), sep, <<>>)
    ELSE Split(Tail(chars), sep, Append(word, Head(chars)))

\* "".join(words)
RECURSIVE Join(_)
Join(words) == IF words = <<>> THEN <<>> ELSE Head(words) \o Join(Tail(words))

\* _snake_to_dromedary_case
SnakeToDromedaryCase(chars) ==
    LET words == Split(chars, "_", <<>>)
    IN IF Len(words) > 1
       THEN Join([i \in 1..Len(words) |-> IF i = 1 THEN words[i] ELSE Title(words[i])])
       ELSE Join(words)

----------------------------------------------------------------------------
(* Rendering.  A rendered value is [t, p, e]: a primitive p (t = "prim"),  *)
(* one nested payload e[1] (t = "obj") or the list e of the members'       *)
(* payloads (t = "list").  A payload is a sequence of [k, v] entries, k    *)
(* spelled out.                                                            *)

Prim(v) == [t |-> "prim", p |-> v, e |-> <<>>]
Nested(pl) == [t |-> "obj", p |-> PyNone, e |-> << pl >>]
Listed(pls) == [t |-> "list", p |-> PyNone, e |-> pls]

\* the fields that are in _attrs, in the order they were set
SetFieldsInOrder_Insertion(fs, attrs) == [i \in 1..Len(attrs) |-> attrs[i].k]

\* the fields of the table that are in _attrs, in the table's order
SetFieldsInOrder(fs, attrs) ==
    LET IsSet(f) == HasKey(attrs, f.name) IN Names(SelectSeq(fs, IsSet))

RECURSIVE GetPayload(_, _)
\* CardObject.get_payload(fmt="python"); a list member without a payload
\* attribute is rendered as the empty payload (see PayloadRaises)
GetPayload(W, o) ==
    LET obj == W.objs[o]
        order == SetFieldsInOrder(Fields(W, obj.kind), obj.attrs)
        Rendered(v) ==
            CASE v.t = "obj" -> Nested(GetPayload(W, v.n))
              [] v.t = "list" ->
                    Listed([i \in 1..Len(W.lists[v.n].items) |->
                        IF W.lists[v.n].items[i].t = "obj"
                        THEN GetPayload(W, W.lists[v.n].items[i].n)
                        ELSE <<>>])
              [] OTHER -> Prim(v)
    IN [i \in 1..Len(obj.payload) |->
            Entry(Chars(obj.payload[i].k), Prim(obj.payload[i].v))]
       \o [i \in 1..Len(order) |->
            Entry(SnakeToDromedaryCase(Chars(order[i])), Rendered(Get(obj.attrs, order[i])))]

RECURSIVE PayloadRaises(_, _)
\* get_payload raises AttributeError on a list member that is no CardObject
PayloadRaises(W, o) ==
    \E i \in 1..Len(W.objs[o].attrs) :
        LET v == W.objs[o].attrs[i].v IN
        \/ v.t = "obj" /\ PayloadRaises(W, v.n)
        \/ /\ v.t = "list"
           /\ \E j \in 1..Len(W.lists[v.n].items) :
                 \/ W.lists[v.n].items[j].t # "obj"
                 \/ PayloadRaises(W, W.lists[v.n].items[j].n)

----------------------------------------------------------------------------
(* Equality *)

RECURSIVE PyEq(_, _, _), ObjEq(_, _, _)

\* a == b of two values
PyEq(W, a, b) ==
    CASE a.t = "obj" /\ b.t = "obj" -> ObjEq(W, a.n, b.n)
      [] a.t = "list" /\ b.t = "list" ->
            LET x == W.lists[a.n]
                y == W.lists[b.n]
            IN /\ x.tuple = y.tuple
               /\ Len(x.items) = Len(y.items)
               /\ \A i \in 1..Len(x.items) : PyEq(W, x.items[i], y.items[i])
      [] a.t \in {"int", "bool"} /\ b.t \in {"int", "bool"} -> a.n = b.n
      [] a.t = "str" /\ b.t = "str" -> a.s = b.s
      [] a.t = "NoneType" /\ b.t = "NoneType" -> TRUE
      [] OTHER -> FALSE

\* CardObject.__eq__(self, other)
ObjEq(W, self, other) ==
    IF W.objs[self].kind # W.objs[other].kind THEN FALSE
    ELSE \A i \in 1..Len(W.objs[self].attrs) :
            LET key == W.objs[self].attrs[i].k IN
            /\ HasKey(W.objs[other].attrs, key)
            /\ PyEq(W, W.objs[self].attrs[i].v, Get(W.objs[other].attrs, key))

----------------------------------------------------------------------------
(* Operations *)

Here == World(objs, lists, inputFields)

Commit(W) ==
    /\ objs' = W.objs
    /\ lists' = W.lists
    /\ inputFields' = W.inputFields

Fits(W) == Len(W.objs) <= MaxObjs /\ Len(W.lists) <= MaxLists

Arg(k, a) == [k |-> k, a |-> a]
Kw(k, v) == Arg(k, ArgVal(v))

\* evaluation of the arguments of a call, left to right: every list or
\* tuple display makes a new list object
RECURSIVE Evaluate(_, _, _)
Evaluate(W, args, acc) ==
    IF args = <<>> THEN [W |-> W, kvs |-> acc]
    ELSE LET x == Head(args) IN
         IF x.a.form = "val"
         THEN Evaluate(W, Tail(args), Append(acc, Entry(x.k, x.a.v)))
         ELSE Evaluate(NewList(W, x.a.form = "tuple", x.a.items), Tail(args),
                       Append(acc, Entry(x.k, PyList(Len(W.lists) + 1))))

Did(op, kind, obj, args, r) ==
    [op |-> op, kind |-> kind, obj |-> obj, args |-> args,
     err |-> r.err, what |-> r.what, ret |-> r.val]

\* the end of a step: the state W2 the call leaves and the record d of
\* what it did
Done(W2, d) ==
    /\ Fits(W2)
    /\ Commit(W2)
    /\ last' = d
    /\ steps' = steps + 1
    /\ UNCHANGED << requests, opener >>

NewDone(kind, args, r) ==
    Done(IF r.err = "" THEN r.W ELSE [Here EXCEPT !.inputFields = r.W.inputFields],
         Did("new", kind, IF r.err = "" THEN r.val.n ELSE 0, args, r))

\* obj = kind(**args).  When __init__ raises no instance comes to be; the
\* lists its arguments made are unreachable and leave the state.
New(kind, args) ==
    /\ steps < MaxSteps
    /\ NewDone(kind, args,
           Construct(Evaluate(Here, args, <<>>).W, kind, Evaluate(Here, args, <<>>).kvs))

SetDone(o, field, arg, r) ==
    Done(IF r.err = "" THEN r.W ELSE Here,
         Did("set", objs[o].kind, o, << Arg(field, arg) >>, r))

\* CardObject.__setitem__: obj[field] = arg, which every set_<field>(arg)
\* method is another spelling of
SetItem(o, field, arg) ==
    /\ steps < MaxSteps
    /\ SetDone(o, field, arg,
           SetField(Evaluate(Here, << Arg(field, arg) >>, <<>>).W, o, field,
                    Evaluate(Here, << Arg(field, arg) >>, <<>>).kvs[1].v))

\* a read that answers None for a missing key, as dict.get does
GetItem_Default(W, o, key) ==
    IF HasKey(W.objs[o].attrs, key) THEN Ok(W, Get(W.objs[o].attrs, key))
    ELSE Ok(W, PyNone)

\* CardObject.__getitem__: obj[key], a read that changes nothing
GetItem(W, o, key) ==
    IF HasKey(W.objs[o].attrs, key) THEN Ok(W, Get(W.objs[o].attrs, key))
    ELSE Raise(W, "KeyError", key)

\* the members of the sequence field f of o, none when f is not set
MembersOf(W, o, f) ==
    IF HasKey(W.objs[o].attrs, f) THEN W.lists[Get(W.objs[o].attrs, f).n].items
    ELSE <<>>

\* sections = self._attrs.get(field, []) followed by sections.append(v):
\* the list the field holds is extended in place, a missing field gives a
\* new list
Appended(W, o, field, v) ==
    IF HasKey(W.objs[o].attrs, field)
    THEN [W EXCEPT !.lists[Get(W.objs[o].attrs, field).n].items = Append(@, v)]
    ELSE NewList(W, FALSE, << v >>)

\* the list that was appended to
AppendedTo(W, o, field) ==
    IF HasKey(W.objs[o].attrs, field) THEN Get(W.objs[o].attrs, field)
    ELSE PyList(Len(W.lists) + 1)

\* the call returns or raises, r being how _set_field ended: what was
\* appended to a list the instance holds stays appended when it raised
AddDone(o, field, v, r) ==
    Done(IF r.err = "" THEN r.W
         ELSE IF HasKey(objs[o].attrs, field) THEN Appended(Here, o, field, v)
         ELSE Here,
         Did("add", objs[o].kind, o, << Arg(field, ArgVal(v)) >>, r))

\* the body shared by MessageCard.add_section and add_potential_action;
\* a tuple has no append
AddTo(o, field, v) ==
    /\ steps < MaxSteps
    /\ IF HasKey(objs[o].attrs, field) /\ lists[Get(objs[o].attrs, field).n].tuple
       THEN Done(Here, Did("add", objs[o].kind, o, << Arg(field, ArgVal(v)) >>,
                           Raise(Here, "AttributeError", "append")))
       ELSE AddDone(o, field, v,
                SetField(Appended(Here, o, field, v), o, field, AppendedTo(Here, o, field)))

\* MessageCard.add_section
AddSection(o, v) == AddTo(o, "sections", v)

\* MessageCard.add_potential_action
AddPotentialAction(o, v) == AddTo(o, "potential_action", v)

\* os_list of add_target: target["os"] of every target
OsList(W, o) ==
    [i \in 1..Len(W.lists[Get(W.objs[o].attrs, "targets").n].items) |->
        Get(W.objs[W.lists[Get(W.objs[o].attrs, "targets").n].items[i].n].attrs, "os")]

\* target_list.append(UriTarget(os=os, uri=uri)), r being how the
\* constructor ended
AddTargetDone(o, os, uri, r) ==
    Done(IF r.err = ""
         THEN [r.W EXCEPT !.lists[Get(objs[o].attrs, "targets").n].items = Append(@, r.val)]
         ELSE Here,
         Did("add_target", objs[o].kind, o,
             << Arg("os", ArgVal(os)), Arg("uri", ArgVal(uri)) >>,
             IF r.err = "" THEN Ok(r.W, PyNone) ELSE r))

\* OpenUriAction.add_target
AddTarget(o, os, uri) ==
    /\ steps < MaxSteps
    /\ IF \E i \in 1..Len(OsList(Here, o)) : OsList(Here, o)[i] = os
       THEN Done(Here, Did("add_target", objs[o].kind, o,
                           << Arg("os", ArgVal(os)), Arg("uri", ArgVal(uri)) >>,
                           Raise(Here, "ValueError", "Target already set")))
       ELSE IF lists[Get(objs[o].attrs, "targets").n].tuple
       THEN Done(Here, Did("add_target", objs[o].kind, o,
                           << Arg("os", ArgVal(os)), Arg("uri", ArgVal(uri)) >>,
                           Raise(Here, "AttributeError", "append")))
       ELSE AddTargetDone(o, os, uri,
                Construct(Here, "UriTarget", << Entry("os", os), Entry("uri", uri) >>))

\* header_list.extend(items) on header_list = self._attrs.get(field, []):
\* the list the field holds grows in place, a missing field gives a new list
Extended(W, o, field, items) ==
    IF HasKey(W.objs[o].attrs, field)
    THEN [W EXCEPT !.lists[Get(W.objs[o].attrs, field).n].items = @ \o items]
    ELSE NewList(W, FALSE, items)

\* add_header returns or raises, W1 being the state after extend and r how
\* _set_field ended
AddHeaderSet(o, arg, W1, r) ==
    Done(IF r.err = "" THEN r.W
         ELSE IF HasKey(objs[o].attrs, "headers") THEN W1
         ELSE Here,
         Did("add_header", objs[o].kind, o, << Arg("header", arg) >>, r))

\* add_header from header_list.extend on, c being how _check_value ended;
\* a tuple has no extend
AddHeaderChecked(o, arg, c) ==
    IF c.err # ""
    THEN Done(Here, Did("add_header", objs[o].kind, o, << Arg("header", arg) >>, c))
    ELSE IF HasKey(objs[o].attrs, "headers") /\ lists[Get(objs[o].attrs, "headers").n].tuple
    THEN Done(Here, Did("add_header", objs[o].kind, o, << Arg("header", arg) >>,
                        Raise(Here, "AttributeError", "extend")))
    ELSE AddHeaderSet(o, arg,
            Extended(c.W, o, "headers", c.W.lists[c.val.n].items),
            SetField(Extended(c.W, o, "headers", c.W.lists[c.val.n].items),
                     o, "headers", AppendedTo(c.W, o, "headers")))

\* HttpPostAction.add_header
AddHeader(o, arg) ==
    /\ steps < MaxSteps
    /\ AddHeaderChecked(o, arg,
           CheckValue(Evaluate(Here, << Arg("header", arg) >>, <<>>).W,
                      objs[o].kind, "headers",
                      Evaluate(Here, << Arg("header", arg) >>, <<>>).kvs[1].v))

\* a call of a method of o ends: the state it leaves when it returns, the
\* state before it when it raises
CallDone(op, o, args, r) ==
    Done(IF r.err = "" THEN r.W ELSE Here, Did(op, objs[o].kind, o, args, r))

\* the fact goes to the front of the list, not to its end
AddFactStore_Front(o, j, r) ==
    IF r.err # "" THEN r
    ELSE SetField([r.W EXCEPT !.lists[j].items = << r.val >> \o @], o, "facts", PyList(j))

\* facts.append(Fact(...)); self._set_field("facts", facts): facts is the
\* list j, r is how the constructor ended
AddFactStore(o, j, r) ==
    IF r.err # "" THEN r
    ELSE SetField([r.W EXCEPT !.lists[j].items = Append(@, r.val)], o, "facts", PyList(j))

\* the body of CardSection.add_fact: facts is a new list, a copy
AddFactCall(W, o, name, value) ==
    AddFactStore(o, Len(W.lists) + 1,
        Construct(NewList(W, FALSE, MembersOf(W, o, "facts")), "Fact",
                  << Entry("name", name), Entry("value", value) >>))

\* CardSection.add_fact
AddFact(o, name, value) ==
    /\ steps < MaxSteps
    /\ CallDone("add_fact", o, << Kw("fact", name), Kw("value", value) >>,
                AddFactCall(Here, o, name, value))

\* fact_list.extend(...); self._set_field("facts", fact_list): fact_list is
\* the list j, c is how _check_value ended
AddFactsStore(o, j, c) ==
    IF c.err # "" THEN c
    ELSE SetField([c.W EXCEPT !.lists[j].items = @ \o c.W.lists[c.val.n].items],
                  o, "facts", PyList(j))

\* the body of CardSection.add_facts: fact_list is a new list, a copy
AddFactsCall(W, o, v) ==
    AddFactsStore(o, Len(W.lists) + 1,
        CheckValue(NewList(W, FALSE, MembersOf(W, o, "facts")), W.objs[o].kind, "facts", v))

\* CardSection.add_facts
AddFacts(o, arg) ==
    /\ steps < MaxSteps
    /\ CallDone("add_facts", o, << Arg("facts", arg) >>,
                AddFactsCall(Evaluate(Here, << Arg("facts", arg) >>, <<>>).W, o,
                             Evaluate(Here, << Arg("facts", arg) >>, <<>>).kvs[1].v))

\* input_list = list(self._attrs.get(field, [])); input_list.extend(inputs);
\* self._set_field(field, inputs): the copy is extended and the sanitized
\* argument is stored, c being how _check_value ended
AddItemsStore(o, field, c) ==
    IF c.err # "" THEN c
    ELSE SetField(NewList(c.W, FALSE, MembersOf(c.W, o, field) \o c.W.lists[c.val.n].items),
                  o, field, c.val)

\* the body shared by ActionCard.add_inputs and add_actions
AddItems(op, o, field, arg) ==
    /\ steps < MaxSteps
    /\ CallDone(op, o, << Arg(field, arg) >>,
           AddItemsStore(o, field,
               CheckValue(Evaluate(Here, << Arg(field, arg) >>, <<>>).W, objs[o].kind, field,
                          Evaluate(Here, << Arg(field, arg) >>, <<>>).kvs[1].v)))

\* ActionCard.add_inputs
AddInputs(o, arg) == AddItems("add_inputs", o, "inputs", arg)

\* ActionCard.add_actions
AddActions(o, arg) == AddItems("add_actions", o, "actions", arg)

\* one piece of JSON text: a separator, a bracket, a key (k, spelled out) or
\* a primitive value (v)
Tok(j, k, v) == [j |-> j, k |-> k, v |-> v]
Sep(j) == Tok(j, <<>>, PyNone)

\* json.dumps of a primitive
JsonPrim(v) ==
    CASE v.t = "str" -> Tok("string", <<>>, v)
      [] v.t = "bool" -> Sep(IF v.n = 1 THEN "true" ELSE "false")
      [] v.t = "NoneType" -> Sep("null")
      [] OTHER -> Tok("number", <<>>, v)

RECURSIVE JsonDumps(_, _), JsonValue(_, _), JsonItems(_, _), JsonEntries(_, _)
\* json.dumps(payload, indent=None, separators=seps) of a payload
JsonDumps(pl, seps) == << Sep("{") >> \o JsonEntries(pl, seps) \o << Sep("}") >>

JsonEntries(pl, seps) ==
    IF pl = <<>> THEN <<>>
    ELSE << Tok("key", Head(pl).k, PyNone), Sep(seps[2]) >> \o JsonValue(Head(pl).v, seps)
            \o (IF Tail(pl) = <<>> THEN <<>> ELSE << Sep(seps[1]) >> \o JsonEntries(Tail(pl), seps))

JsonValue(r, seps) ==
    CASE r.t = "prim" -> << JsonPrim(r.p) >>
      [] r.t = "obj" -> JsonDumps(r.e[1], seps)
      [] r.t = "list" -> << Sep("[") >> \o JsonItems(r.e, seps) \o << Sep("]") >>

JsonItems(pls, seps) ==
    IF pls = <<>> THEN <<>>
    ELSE JsonDumps(Head(pls), seps)
            \o (IF Tail(pls) = <<>> THEN <<>> ELSE << Sep(seps[1]) >> \o JsonItems(Tail(pls), seps))

\* separators of get_payload for the indent it is given
Separators(indent) == IF indent # PyNone THEN << ",", ": " >> ELSE << ", ", ": " >>

\* CardObject.json_payload: get_payload(fmt="json")
JsonPayload(W, o) == JsonDumps(GetPayload(W, o), Separators(PyNone))

\* text.encode("utf-8")
Encode(text) == [encoding |-> "utf-8", text |-> text]

\* request.Request(url, data=data, headers={"Content-Type": "application/json"})
\* as urlopen sends it through the installed opener
Request(url, data, via) ==
    [url |-> url, data |-> data,
     headers |-> << << "Content-Type", "application/json" >> >>, via |-> via]

\* the proxies in force after the proxy part of send: a proxy that is no
\* dict stands for the https scheme, no proxy leaves the installed opener
Installed(proxy) ==
    IF proxy = PyNone THEN opener
    ELSE IF proxy.t = "dict" THEN proxy
    ELSE PyDict(<< << "https", proxy.s >> >>)

\* MessageCard.send(connector_url, proxy): the opener is installed, the
\* payload rendered, which raises on a member that is no CardObject, and
\* urlopen called once; fails says whether the request fails, which
\* urlopen's exception tells the caller
Send(o, url, proxy, fails) ==
    /\ steps < MaxSteps
    /\ steps' = steps + 1
    /\ opener' = Installed(proxy)
    /\ requests' = IF PayloadRaises(Here, o) THEN requests
                   ELSE Append(requests,
                               Request(url, Encode(JsonPayload(Here, o)), Installed(proxy)))
    /\ last' = Did("send", objs[o].kind, o, << Kw("connector_url", url), Kw("proxy", proxy) >>,
                   IF PayloadRaises(Here, o) THEN Raise(Here, "AttributeError", "payload")
                   ELSE IF fails THEN Raise(Here, "URLError", "")
                   ELSE Ok(Here, PyNone))
    /\ UNCHANGED << objs, lists, inputFields >>

\* a rendered payload as a value a call returns: the entries of the python
\* format or the pieces of the JSON text
PyPayload(fmt, x) == [t |-> fmt, s |-> "", n |-> 0, d |-> x]

\* get_payload that sets the instance's payload entries to what it rendered
Render_Caching(o, fmt) ==
    /\ steps < MaxSteps
    /\ ~PayloadRaises(Here, o)
    /\ Done([Here EXCEPT !.objs[o].payload =
                [i \in 1..Len(GetPayload(Here, o)) |->
                    Entry(GetPayload(Here, o)[i].k, PyNone)]],
            Did("get_payload", objs[o].kind, o, << Kw("fmt", PyStr(fmt)) >>,
                Ok(Here, PyPayload(fmt, IF fmt = "json" THEN JsonPayload(Here, o)
                                        ELSE GetPayload(Here, o)))))

\* CardObject.get_payload(fmt): obj.payload and obj.json_payload; it works
\* on a copy of _payload and writes nothing
Render(o, fmt) ==
    /\ steps < MaxSteps
    /\ Done(Here,
            Did("get_payload", objs[o].kind, o, << Kw("fmt", PyStr(fmt)) >>,
                IF PayloadRaises(Here, o) THEN Raise(Here, "AttributeError", "payload")
                ELSE Ok(Here, PyPayload(fmt, IF fmt = "json" THEN JsonPayload(Here, o)
                                             ELSE GetPayload(Here, o)))))

Init ==
    /\ objs = <<>>
    /\ lists = <<>>
    /\ inputFields = Input_fields
    /\ last = Did("", "", 0, <<>>, Ok(Here, PyNone))
    /\ steps = 0
    /\ requests = <<>>
    /\ opener = PyNone

----------------------------------------------------------------------------
(* Spec: the engine on a section and the elements it holds.  The calls     *)
(* are the ones a program makes, their arguments drawn from small sets.    *)

Ids == 1..Len(objs)
OfKind(kind) == {o \in Ids : objs[o].kind = kind}

A == PyStr("a")
B == PyStr("b")
U == PyStr("u")
Dict0 == PyDict(<<>>)
Dict1 == PyDict(<< <<"a", "b">> >>)
Dict2 == PyDict(<< <<"a", "b">>, <<"c", "d">> >>)

EngineCalls ==
    { <<"CardSection", <<>>>>,
      <<"Fact", << Arg("name", ArgVal(A)), Arg("value", ArgVal(B)) >> >>,
      <<"HttpPostAction", << Arg("name", ArgVal(A)), Arg("target", ArgVal(U)) >> >> }

EngineSets ==
    ({"title"} \X {ArgVal(A), ArgVal(B), ArgVal(PyBool(TRUE)), ArgList(<<>>)})
    \cup ({"hero_image"} \X {ArgVal(U), ArgVal(Dict1)})
    \cup ({"facts"} \X
            ({ArgVal(Dict2), ArgList(<<>>)}
                \cup {ArgVal(PyRef(i)) : i \in Ids}
                \cup {ArgList(<< PyRef(i) >>) : i \in Ids}
                \cup {ArgTuple(<< PyRef(i) >>) : i \in Ids}
                \cup {ArgList(<< PyRef(i), A >>) : i \in Ids}))
    \cup ({"potential_action"} \X {ArgVal(PyRef(i)) : i \in Ids})
    \cup ({"bogus"} \X {ArgVal(A)})

Next ==
    \/ \E c \in EngineCalls : New(c[1], c[2])
    \/ \E o \in OfKind("CardSection"), x \in EngineSets : SetItem(o, x[1], x[2])

Spec == Init /\ [][Next]_vars

----------------------------------------------------------------------------
(* What a step did, read off the state before it and the state after it    *)

Post == World(objs', lists', inputFields')

\* the value the set call of this step was given, its displays evaluated
Given1 == Evaluate(Here, last'.args, <<>>)
SetCall == last'.op = "set"
SetOk == SetCall /\ last'.err = ""
SetField1 == last'.args[1].k
SetDesc == FieldOf(Fields(Here, last'.kind), SetField1)
SetKnown == SetCall /\ HasField(Fields(Here, last'.kind), SetField1)
Stored == Get(objs'[last'.obj].attrs, SetField1)

\* everything but field f of object o is as it was
FrameExcept(o, f) ==
    /\ \A p \in Ids : p # o => objs'[p] = objs[p]
    /\ \A j \in 1..Len(lists) : lists'[j] = lists[j]
    /\ inputFields' = inputFields
    /\ objs'[o].kind = objs[o].kind
    /\ objs'[o].payload = objs[o].payload
    /\ \A i \in 1..Len(objs[o].attrs) :
          LET g == objs[o].attrs[i].k IN
          g # f => HasKey(objs'[o].attrs, g) /\ Get(objs'[o].attrs, g) = objs[o].attrs[i].v
    /\ Keys(objs'[o].attrs) = Keys(objs[o].attrs) \cup {f}

\* v', the value of the expected type that v is or is converted to
Converted(W, type, v) ==
    IF IsInstance(W, v, type) THEN Ok(W, v) ELSE Convert(W, type, v)

\* the stored value is the list [x], a new list
StoredIsListOf(x) ==
    /\ Stored.t = "list"
    /\ Stored.n > Len(Given1.W.lists)
    /\ lists'[Stored.n] = [tuple |-> FALSE, items |-> << x >>]

\* the stored value is x and what x refers to is what the conversion made
StoredIs(c) ==
    /\ Stored = c.val
    /\ c.val.t = "obj" => objs'[c.val.n] = c.W.objs[c.val.n]
    /\ c.val.t = "list" => lists'[c.val.n] = c.W.lists[c.val.n]

\* C1 as amended: after a successful setField(f, v), reading f returns v
\* itself when v is a list/tuple given to a sequence-accepting field; else
\* v' (v when it has the expected type, the converter's result otherwise),
\* stored as it is when f is not sequence-accepting or v' is a list, and as
\* the one-element list [v'] when f is sequence-accepting and v' is no
\* list/tuple.  The set overwrites any earlier value of f and changes
\* nothing else.
C1_ReadBack ==
    [][SetOk =>
        LET v == Given1.kvs[1].v
            c == Converted(Given1.W, SetDesc.type, v)
        IN /\ GetItem(Post, last'.obj, SetField1).err = ""
           /\ GetItem(Post, last'.obj, SetField1).val = Stored
           /\ IF SetDesc.iter /\ IsIter(v) THEN StoredIs(Ok(Given1.W, v))
              ELSE IF SetDesc.iter /\ ~IsIter(c.val) THEN StoredIsListOf(c.val)
              ELSE StoredIs(c)
           /\ FrameExcept(last'.obj, SetField1)]_vars

\* C1 as stated: a sequence-accepting field given anything that is not a
\* list/tuple reads back as the one-element sequence [v'].
C1_Original ==
    [][SetOk =>
        LET v == Given1.kvs[1].v
            c == Converted(Given1.W, SetDesc.type, v)
        IN /\ GetItem(Post, last'.obj, SetField1).err = ""
           /\ IF SetDesc.iter /\ IsIter(v) THEN StoredIs(Ok(Given1.W, v))
              ELSE IF SetDesc.iter
                   THEN Stored.t = "list" /\ Len(lists'[Stored.n].items) = 1
              ELSE StoredIs(c)
           /\ FrameExcept(last'.obj, SetField1)]_vars

\* a mapping of two pairs was set on a sequence-accepting field of an
\* instance that has another field set, and reads back as two members
C1_Witness ==
    /\ last.op = "set" /\ last.err = ""
    /\ last.args[1].a = ArgVal(Dict2)
    /\ Len(objs[last.obj].attrs) >= 2
    /\ Len(lists[Get(objs[last.obj].attrs, last.args[1].k).n].items) = 2


\* the members of list value v that are no instances of type
Offending(W, v, type) ==
    {i \in 1..Len(W.lists[v.n].items) : ~IsInstance(W, W.lists[v.n].items[i], type)}

\* C3: setField on a field of the schema raises TypeError and stores
\* nothing (a) when the value, not a list/tuple given to a sequence-accepting
\* field, is no instance of the expected type and the expected type has no
\* converter from the value's type, and (b) when a list/tuple given to a
\* sequence-accepting field has a member that is no instance of the expected
\* type; in (b) the error reports the type of the first such member.
C3_TypeErrors ==
    [][SetKnown =>
        LET v == Given1.kvs[1].v
            W == Given1.W
            type == SetDesc.type
            asList == SetDesc.iter /\ IsIter(v)
        IN /\ (~asList /\ ~IsInstance(W, v, type) /\ ~HasConverter(type, TypeName(W, v)))
                => /\ last'.err = "TypeError"
                   /\ last'.what = TypeName(W, v)
                   /\ UNCHANGED <<objs, lists, inputFields>>
           /\ (asList /\ Offending(W, v, type) # {})
                => /\ last'.err = "TypeError"
                   /\ last'.what = TypeName(W, W.lists[v.n].items[Min(Offending(W, v, type))])
                   /\ UNCHANGED <<objs, lists, inputFields>>]_vars

\* a list whose second member is the first one of the wrong type was
\* refused, and the error names the type of that member
C3_Witness ==
    /\ last.op = "set" /\ last.err = "TypeError" /\ last.what = "str"
    /\ last.args[1].k = "facts"
    /\ last.args[1].a.form = "list"
    /\ Len(last.args[1].a.items) = 2
    /\ objs[last.args[1].a.items[1].n].kind = "Fact"

AllNames ==
    {"image", "title", "name", "value", "os", "uri", "targets", "target", "headers",
     "body", "body_content_type", "id", "is_required", "is_multiline", "max_length",
     "include_time", "choices", "is_multi_select", "style", "display", "inputs",
     "actions", "start_group", "activity_title", "activity_subtitle",
     "activity_image", "activity_text", "hero_image", "text", "facts",
     "potential_action", "summary", "theme_color", "sections", "bogus"}

\* this step is a call that ended with a successful _set_field(f, ...) on o
DidSet(o, f) ==
    /\ last'.err = ""
    /\ last'.obj = o
    /\ \/ last'.op = "set" /\ last'.args[1].k = f
       \/ /\ last'.op = "new"
          /\ \E i \in 1..Len(SetOrder(last'.kind, Given1.kvs)) :
                SetOrder(last'.kind, Given1.kvs)[i].k = f

\* C4: reading a field returns its value exactly when an earlier setField
\* on it succeeded, and raises KeyError otherwise; a field set to an empty
\* sequence is read as that empty sequence.
C4_Readable ==
    [][\A o \in 1..Len(objs') : \A f \in AllNames :
        LET now == GetItem(Post, o, f)
            before == o \in Ids /\ GetItem(Here, o, f).err = ""
            \* an instance a converter made in this step: its constructor
            \* set the fields it has
            made == o \notin Ids /\ o # last'.obj /\ f \in Named(objs'[o].kind)
        IN /\ now.err = "" => (before \/ DidSet(o, f) \/ made)
           /\ (before \/ DidSet(o, f)) => now.err = ""
           /\ now.err # "" => now.err = "KeyError"
           /\ (DidSet(o, f) /\ last'.op = "set" /\ last'.args[1].a = ArgList(<<>>))
                => now.val.t = "list" /\ lists'[now.val.n].items = <<>>]_vars

\* a section was given an empty list of facts and was never given a title:
\* facts reads as the empty list, title raises KeyError
C4_Witness ==
    /\ last.op = "set" /\ last.err = ""
    /\ last.args[1] = Arg("facts", ArgList(<<>>))
    /\ GetItem(Here, last.obj, "facts").err = ""
    /\ lists[GetItem(Here, last.obj, "facts").val.n].items = <<>>
    /\ GetItem(Here, last.obj, "title").err = "KeyError"

----------------------------------------------------------------------------
(* Equality and rendering of the instances of Spec *)

\* a and b have the same kind and the same fields set, with equal values
SameFields(a, b) ==
    /\ objs[a].kind = objs[b].kind
    /\ Keys(objs[a].attrs) = Keys(objs[b].attrs)
    /\ \A k \in Keys(objs[a].attrs) :
          PyEq(Here, Get(objs[a].attrs, k), Get(objs[b].attrs, k))

\* C5: two instances are equal exactly when they have the same kind and
\* every field set on either is set on the other with an equal value;
\* equality is symmetric, and an instance whose set fields are a strict
\* subset of another's is not equal to it.
C5_Equality ==
    \A a \in Ids : \A b \in Ids :
        /\ ObjEq(Here, a, b) <=> SameFields(a, b)
        /\ ObjEq(Here, a, b) <=> ObjEq(Here, b, a)
        /\ (Keys(objs[a].attrs) \subseteq Keys(objs[b].attrs)
                /\ Keys(objs[a].attrs) # Keys(objs[b].attrs))
             => ~ObjEq(Here, a, b) /\ ~ObjEq(Here, b, a)

\* the place of field f in the table fs
Pos(fs, f) == CHOOSE i \in 1..Len(fs) : fs[i].name = f

\* the place of f among the fields that are set, counted in table order
Rank(fs, attrs, f) ==
    Cardinality({g \in Keys(attrs) : Pos(fs, g) < Pos(fs, f)}) + 1

\* the key of a field name spelled c: its characters without the
\* underscores, a character that follows an underscore in upper case
KeyOf(c) ==
    LET keep == {i \in 1..Len(c) : c[i] # "_"}
        nth(j) == CHOOSE i \in keep : Cardinality({k \in keep : k < i}) = j - 1
    IN [j \in 1..Cardinality(keep) |->
           IF nth(j) > 1 /\ c[nth(j) - 1] = "_" THEN ToUpper(c[nth(j)]) ELSE c[nth(j)]]

\* what a stored value is rendered as: a nested element as its own
\* payload, a sequence as the list of its members' payloads, in order
Shown(v) ==
    CASE v.t = "obj" -> Nested(GetPayload(Here, v.n))
      [] v.t = "list" ->
            Listed([i \in 1..Len(lists[v.n].items) |->
                       GetPayload(Here, lists[v.n].items[i].n)])
      [] OTHER -> Prim(v)

\* C6: the payload of an instance is its reserved entries followed by
\* exactly one entry per field that is set, none for an unset field, in the
\* order of the schema whatever the order the fields were set in; the key
\* is the transformed field name, a nested element is rendered as its own
\* payload and a sequence as the list of its members' payloads in order.
C6_Payload ==
    \A o \in Ids :
        /\ Len(GetPayload(Here, o)) = Len(objs[o].payload) + Len(objs[o].attrs)
        /\ \A i \in 1..Len(objs[o].payload) :
              GetPayload(Here, o)[i]
                  = Entry(Chars(objs[o].payload[i].k), Prim(objs[o].payload[i].v))
        /\ \A f \in Keys(objs[o].attrs) :
              GetPayload(Here, o)[Len(objs[o].payload)
                                    + Rank(Fields(Here, objs[o].kind), objs[o].attrs, f)]
                  = Entry(KeyOf(Chars(f)), Shown(Get(objs[o].attrs, f)))

\* a section was given two facts and then a title: the title is rendered
\* before the facts, and each fact as its own payload
C6_Witness ==
    \E o \in Ids :
        /\ objs[o].kind = "CardSection"
        /\ Len(objs[o].attrs) = 2
        /\ objs[o].attrs[1].k = "facts"
        /\ objs[o].attrs[2].k = "title"
        /\ Len(lists[objs[o].attrs[1].v.n].items) = 2
        /\ GetPayload(Here, o)[1].k = Chars("title")
        /\ GetPayload(Here, o)[2].v.t = "list"
        /\ Len(GetPayload(Here, o)[2].v.e) = 2
        /\ Len(GetPayload(Here, o)[2].v.e[1]) = 2

\* C7: two instances that compare equal render equal payloads: the same
\* keys in the same order with the same values.
C7_EqualRender ==
    \A a \in Ids : \A b \in Ids :
        ObjEq(Here, a, b) => GetPayload(Here, a) = GetPayload(Here, b)

----------------------------------------------------------------------------
(* InputSpec: the input kinds and the table they share.  Constructor calls  *)
(* with keyword arguments and item assignments, on inputs and on a section. *)

True == PyBool(TRUE)

InputCalls ==
    { <<"Input", <<>>>>,
      <<"TextInput", <<>>>>,
      <<"DateInput", <<>>>>,
      <<"MultipleChoiceInput", <<>>>>,
      <<"TextInput", << Kw("include_time", True) >> >>,
      <<"TextInput", << Kw("is_multiline", True), Kw("include_time", True) >> >>,
      <<"DateInput", << Kw("bogus", A) >> >>,
      <<"CardSection", << Kw("bogus", A) >> >>,
      <<"CardSection", << Kw("title", A) >> >> }

InputSets ==
    { <<"is_multiline", ArgVal(True)>>,
      <<"include_time", ArgVal(True)>>,
      <<"id", ArgVal(A)>>,
      <<"bogus", ArgVal(A)>> }

InputNext ==
    \/ \E c \in InputCalls : New(c[1], c[2])
    \/ \E o \in Ids, x \in InputSets : SetItem(o, x[1], x[2])

InputSpec == Init /\ [][InputNext]_vars

\* the schema of a kind: the table its class declares, which for an input
\* kind is the table of Input followed by the fields the kind adds
Declared(kind) ==
    IF kind \in InputKinds THEN Input_fields \o SubFields(kind)
    ELSE Fields(Here, kind)

\* the arguments of this step's call that name a field to set which is not
\* in the schema of the kind
UnknownArgs ==
    {i \in 1..Len(last'.args) :
        /\ last'.op = "set" \/ last'.args[i].k \notin Named(last'.kind)
        /\ ~HasField(Declared(last'.kind), last'.args[i].k)}

\* C2: a set of a field that is not in the schema of the instance's kind,
\* through a keyword argument of the constructor or through item
\* assignment, fails with ValueError (unknown field) whatever the kind, and
\* leaves the stored values as they were.
C2_UnknownField ==
    [][(/\ steps' # steps
        /\ last'.op = "set" \/ (last'.op = "new" /\ VarKw(last'.kind))
        /\ UnknownArgs # {})
         => /\ last'.err = "ValueError"
            /\ last'.what = "Unknown field"
            /\ objs' = objs
            /\ lists' = lists]_vars

\* the table of a run that began by constructing a TextInput, a DateInput
\* and a MultipleChoiceInput, in that order
OtherRunFields ==
    Construct(
        Construct(
            Construct(World(<<>>, <<>>, Input_fields), "TextInput", <<>>).W,
            "DateInput", <<>>).W,
        "MultipleChoiceInput", <<>>).W.inputFields

\* an instance of the kind of o with the fields of o set, made in that run
Twin(o) ==
    Construct([Here EXCEPT !.inputFields = OtherRunFields], objs[o].kind, objs[o].attrs)

\* the keys of the payload of o, in order
PayloadKeys(W, o) == [i \in 1..Len(GetPayload(W, o)) |-> GetPayload(W, o)[i].k]

\* C8: the order in which a kind's fields are rendered is fixed by the
\* kind: an instance renders its keys in the order in which an instance of
\* the same kind with the same fields set renders them in a run in which
\* the input kinds were constructed earlier in another order.
C8_StaticOrder ==
    \A o \in Ids :
        objs[o].kind \in InputKinds
            => /\ Twin(o).err = ""
               /\ PayloadKeys(Twin(o).W, Twin(o).val.n) = PayloadKeys(Here, o)

----------------------------------------------------------------------------
(* CardSpec: the root card.  It is constructed, its fields are assigned,   *)
(* sections and actions are added to it.  No card is put into a card.      *)

CardCalls ==
    { <<"MessageCard", <<>>>>,
      <<"MessageCard", << Kw("summary", A) >> >>,
      <<"MessageCard", << Kw("title", A), Kw("summary", B) >> >>,
      <<"MessageCard", << Kw("summary", True) >> >>,
      <<"CardSection", <<>>>>,
      <<"HttpPostAction", << Kw("name", A), Kw("target", U) >> >> }

Cards == OfKind("MessageCard")
Parts == Ids \ Cards

CardSets ==
    ({"summary"} \X {ArgVal(B), ArgVal(True)})
    \cup ({"sections"} \X ({ArgVal(PyRef(i)) : i \in Parts}
                            \cup {ArgTuple(<< PyRef(i) >>) : i \in Parts}))
    \cup ({"potential_action"} \X {ArgVal(PyRef(i)) : i \in Parts})

CardNext ==
    \/ \E c \in CardCalls : New(c[1], c[2])
    \/ \E o \in Cards, x \in CardSets : SetItem(o, x[1], x[2])
    \/ \E o \in Cards, v \in {PyRef(i) : i \in Parts} \cup {A} : AddSection(o, v)
    \/ \E o \in Cards, v \in {PyRef(i) : i \in Parts} : AddPotentialAction(o, v)

CardSpec == Init /\ [][CardNext]_vars

\* the discriminator a kind declares, "" when it declares none
TypeTag(kind) ==
    CASE kind = "MessageCard" -> "MessageCard"
      [] kind = "OpenUriAction" -> "OpenUri"
      [] kind = "HttpPostAction" -> "HttpPOST"
      [] kind = "ActionCard" -> "ActionCard"
      [] kind = "TextInput" -> "TextInput"
      [] kind = "DateInput" -> "DateInput"
      [] kind = "MultipleChoiceInput" -> "MultipleChoiceInput"
      [] OTHER -> ""

TypeEntry(kind) == Entry(Chars("@type"), Prim(PyStr(TypeTag(kind))))
ContextEntry == Entry(Chars("@context"), Prim(PyStr("https://schema.org/extensions")))

\* C9: after every operation every card renders a payload that starts with
\* "@type": "MessageCard" and "@context": "https://schema.org/extensions",
\* and has a summary set; a card constructed without arguments renders these
\* two entries and the default summary, nothing else; an instance of another
\* kind with a discriminator renders "@type" first; and no operation changes
\* the reserved entries of an instance.
C9_Reserved ==
    [][\A o \in 1..Len(objs') :
        /\ objs'[o].kind = "MessageCard"
              => /\ ~PayloadRaises(Post, o)
                 /\ Len(GetPayload(Post, o)) >= 3
                 /\ GetPayload(Post, o)[1] = TypeEntry("MessageCard")
                 /\ GetPayload(Post, o)[2] = ContextEntry
                 /\ HasKey(objs'[o].attrs, "summary")
        /\ (objs'[o].kind # "MessageCard" /\ TypeTag(objs'[o].kind) # "")
              => /\ ~PayloadRaises(Post, o)
                 /\ GetPayload(Post, o)[1] = TypeEntry(objs'[o].kind)
        /\ o \in Ids => objs'[o].payload = objs[o].payload
        /\ (last'.op = "new" /\ last'.err = "" /\ last'.obj = o
                /\ last'.kind = "MessageCard" /\ last'.args = <<>>)
              => GetPayload(Post, o)
                    = << TypeEntry("MessageCard"), ContextEntry,
                         Entry(Chars("summary"), Prim(PyStr("Summary"))) >>]_vars

----------------------------------------------------------------------------
(* UriSpec: Open-URI actions and their targets *)

Default == PyStr("default")
Android == PyStr("android")
DictDefault == PyDict(<< <<"default", "u">> >>)
DictBoth == PyDict(<< <<"default", "u">>, <<"android", "u">> >>)

\* the forms the targets of an action are given in
TargetForms ==
    {ArgVal(U), ArgVal(DictDefault), ArgVal(DictBoth)}
        \cup {ArgList(<< PyRef(i) >>) : i \in OfKind("UriTarget")}
        \cup {ArgTuple(<< PyRef(i) >>) : i \in OfKind("UriTarget")}
        \cup {ArgList(<< PyRef(i), PyRef(j) >>) : i \in OfKind("UriTarget"), j \in OfKind("UriTarget")}

UriNext ==
    \/ \E os \in {Default, Android} : New("UriTarget", << Kw("os", os), Kw("uri", U) >>)
    \/ \E t \in TargetForms : New("OpenUriAction", << Kw("name", A), Arg("targets", t) >>)
    \/ \E o \in OfKind("OpenUriAction"), os \in {Default, Android} : AddTarget(o, os, U)
    \/ \E o \in OfKind("OpenUriAction"), t \in TargetForms : SetItem(o, "targets", t)

UriSpec == Init /\ [][UriNext]_vars

\* C10: no two targets of an Open-URI action have the same platform,
\* however the action was constructed and whatever add_target calls and
\* assignments to targets followed.
C10_OnePerPlatform ==
    \A o \in OfKind("OpenUriAction") :
        \A i \in 1..Len(OsList(Here, o)) : \A j \in 1..Len(OsList(Here, o)) :
            i # j => OsList(Here, o)[i] # OsList(Here, o)[j]

\* the targets of action o, in order
TargetsOf(W, o) == W.lists[Get(W.objs[o].attrs, "targets").n].items

\* v is a target with platform os and URI uri
IsTarget(W, v, os, uri) ==
    /\ v.t = "obj"
    /\ W.objs[v.n].kind = "UriTarget"
    /\ Keys(W.objs[v.n].attrs) = {"os", "uri"}
    /\ Get(W.objs[v.n].attrs, "os") = os
    /\ Get(W.objs[v.n].attrs, "uri") = uri

\* C11: an action constructed from a URL string has exactly one target,
\* with platform "default" and that URL; one constructed from a mapping has
\* one target per pair, in the mapping's order.  add_target with a platform
\* that is not present appends one target and keeps the earlier ones in
\* their order; with a platform that is present it fails with ValueError
\* and leaves the targets as they were.
C11_Targets ==
    [][/\ (last'.op = "new" /\ last'.kind = "OpenUriAction" /\ last'.err = ""
              /\ last'.args[2].a.form = "val" /\ last'.args[2].a.v.t = "str")
            => /\ Len(TargetsOf(Post, last'.obj)) = 1
               /\ IsTarget(Post, TargetsOf(Post, last'.obj)[1], Default, last'.args[2].a.v)
       /\ (last'.op = "new" /\ last'.kind = "OpenUriAction"
              /\ last'.args[2].a.form = "val" /\ last'.args[2].a.v.t = "dict")
            => /\ last'.err = ""
               /\ Len(TargetsOf(Post, last'.obj)) = Len(last'.args[2].a.v.d)
               /\ \A i \in 1..Len(last'.args[2].a.v.d) :
                     IsTarget(Post, TargetsOf(Post, last'.obj)[i],
                              PyStr(last'.args[2].a.v.d[i][1]),
                              PyStr(last'.args[2].a.v.d[i][2]))
       /\ (last'.op = "add_target" /\ steps' # steps
              /\ \A i \in 1..Len(OsList(Here, last'.obj)) :
                    OsList(Here, last'.obj)[i] # last'.args[1].a.v)
            => /\ last'.err = ""
               /\ Len(TargetsOf(Post, last'.obj)) = Len(TargetsOf(Here, last'.obj)) + 1
               /\ \A i \in 1..Len(TargetsOf(Here, last'.obj)) :
                     /\ TargetsOf(Post, last'.obj)[i] = TargetsOf(Here, last'.obj)[i]
                     /\ objs'[TargetsOf(Here, last'.obj)[i].n]
                            = objs[TargetsOf(Here, last'.obj)[i].n]
               /\ IsTarget(Post, TargetsOf(Post, last'.obj)[Len(TargetsOf(Post, last'.obj))],
                           last'.args[1].a.v, last'.args[2].a.v)
       /\ (last'.op = "add_target" /\ steps' # steps
              /\ \E i \in 1..Len(OsList(Here, last'.obj)) :
                    OsList(Here, last'.obj)[i] = last'.args[1].a.v)
            => /\ last'.err = "ValueError"
               /\ UNCHANGED <<objs, lists>>]_vars

----------------------------------------------------------------------------
(* HttpSpec: HTTP-POST actions and their headers *)

\* the forms headers are given in; a str is no header
HeaderForms ==
    {ArgVal(Dict1), ArgVal(Dict2), ArgVal(A)}
        \cup {ArgVal(PyRef(i)) : i \in OfKind("Header")}
        \cup {ArgList(<< PyRef(i) >>) : i \in OfKind("Header")}
        \cup {ArgTuple(<< PyRef(i) >>) : i \in OfKind("Header")}

HttpNext ==
    \/ New("HttpPostAction", << Kw("name", A), Kw("target", U) >>)
    \/ \E n \in {A, B} : New("Header", << Kw("name", n), Kw("value", A) >>)
    \/ \E o \in OfKind("HttpPostAction"), h \in HeaderForms : SetItem(o, "headers", h)
    \/ \E o \in OfKind("HttpPostAction"), h \in HeaderForms : AddHeader(o, h)

HttpSpec == Init /\ [][HttpNext]_vars

\* the fields f and g of the members of a sequence, as pairs
PairsOf(W, items, f, g) ==
    [i \in 1..Len(items) |->
        << Get(W.objs[items[i].n].attrs, f), Get(W.objs[items[i].n].attrs, g) >>]

\* whether the argument a denotes elements of the kind: a mapping, an element
\* or a list/tuple of elements
Denotes(a, kind) ==
    \/ a.form = "val" /\ a.v.t = "dict"
    \/ a.form = "val" /\ a.v.t = "obj" /\ objs[a.v.n].kind = kind
    \/ a.form # "val" /\ \A i \in 1..Len(a.items) :
            a.items[i].t = "obj" /\ objs[a.items[i].n].kind = kind

\* the pairs of the elements the argument a denotes: the pairs of a mapping,
\* the fields f and g of an element or of the members of a list/tuple
ArgPairs(a, f, g) ==
    IF a.form = "val" /\ a.v.t = "dict"
    THEN [i \in 1..Len(a.v.d) |-> << PyStr(a.v.d[i][1]), PyStr(a.v.d[i][2]) >>]
    ELSE IF a.form = "val" THEN PairsOf(Here, << a.v >>, f, g)
    ELSE PairsOf(Here, a.items, f, g)

\* C12: set_headers replaces the headers by the ones built from its
\* argument, one per pair of a mapping in the mapping's order; add_header
\* appends the ones built from its argument after the existing headers,
\* which stay, in their order; on an action without headers add_header
\* leaves what set_headers leaves.
C12_Headers ==
    [][(steps' # steps /\ last'.kind = "HttpPostAction"
           /\ last'.op \in {"set", "add_header"}
           /\ Denotes(last'.args[1].a, "Header"))
         => /\ last'.err = ""
            /\ PairsOf(Post, MembersOf(Post, last'.obj, "headers"), "name", "value")
                 = (IF last'.op = "set" THEN <<>>
                    ELSE PairsOf(Here, MembersOf(Here, last'.obj, "headers"), "name", "value"))
                   \o ArgPairs(last'.args[1].a, "name", "value")
            /\ last'.op = "add_header"
                 => \A i \in 1..Len(MembersOf(Here, last'.obj, "headers")) :
                       MembersOf(Post, last'.obj, "headers")[i]
                           = MembersOf(Here, last'.obj, "headers")[i]]_vars

----------------------------------------------------------------------------
(* FactSpec: sections and their facts *)

\* the forms facts are given in; a str is no fact
FactForms ==
    {ArgVal(Dict0), ArgVal(Dict1), ArgVal(Dict2), ArgVal(A)}
        \cup {ArgVal(PyRef(i)) : i \in OfKind("Fact")}
        \cup {ArgList(<< PyRef(i) >>) : i \in OfKind("Fact")}
        \cup {ArgTuple(<< PyRef(i) >>) : i \in OfKind("Fact")}

FactNext ==
    \/ \E kw \in {<<>>, << Kw("title", A) >>, << Kw("facts", Dict1) >>} : New("CardSection", kw)
    \/ New("Fact", << Kw("name", B), Kw("value", A) >>)
    \/ \E o \in OfKind("CardSection"), f \in FactForms : SetItem(o, "facts", f)
    \/ \E o \in OfKind("CardSection"), v \in {B, PyNone} : AddFact(o, A, v)
    \/ \E o \in OfKind("CardSection"), f \in FactForms : AddFacts(o, f)

FactSpec == Init /\ [][FactNext]_vars

\* the state after add_fact(name, value) for each of the pairs, in order
RECURSIVE ByAddFact(_, _, _)
ByAddFact(W, o, pairs) ==
    IF pairs = <<>> THEN W
    ELSE ByAddFact(AddFactCall(W, o, PyStr(Head(pairs)[1]), PyStr(Head(pairs)[2])).W,
                   o, Tail(pairs))

\* the section the constructor makes from the fields of o and facts = m
ByNew(W, o, m) ==
    Construct(W, "CardSection", W.objs[o].attrs \o << Entry("facts", m) >>)

\* on section o, set_facts(m), add_facts(m), add_fact over the pairs of m
\* and the constructor with facts = m give the same payload
SamePayloads(W, o, m) ==
    /\ GetPayload(AddFactsCall(W, o, m).W, o) = GetPayload(SetField(W, o, "facts", m).W, o)
    /\ GetPayload(ByAddFact(W, o, m.d), o) = GetPayload(SetField(W, o, "facts", m).W, o)
    /\ GetPayload(ByNew(W, o, m).W, ByNew(W, o, m).val.n)
         = GetPayload(SetField(W, o, "facts", m).W, o)

\* what this step's call gives the facts of its section: the facts before
\* it unless it is a set, then what its arguments denote
FactsAfter ==
    (IF last'.op = "set" THEN <<>>
     ELSE PairsOf(Here, MembersOf(Here, last'.obj, "facts"), "name", "value"))
    \o (IF last'.op = "add_fact" THEN << << last'.args[1].a.v, last'.args[2].a.v >> >>
        ELSE ArgPairs(last'.args[1].a, "name", "value"))

\* this step is set_facts, add_facts or add_fact with an argument that
\* denotes facts
FactCall ==
    /\ steps' # steps
    /\ last'.kind = "CardSection"
    /\ \/ last'.op \in {"set", "add_facts"}
             /\ last'.args[1].k = "facts" /\ Denotes(last'.args[1].a, "Fact")
       \/ last'.op = "add_fact"
             /\ last'.args[1].a.v.t = "str" /\ last'.args[2].a.v.t = "str"

\* set_facts replaces, add_fact and add_facts append and keep what was there
FactsChange ==
    FactCall
      => /\ last'.err = ""
         /\ PairsOf(Post, MembersOf(Post, last'.obj, "facts"), "name", "value") = FactsAfter
         /\ last'.op # "set"
              => \A i \in 1..Len(MembersOf(Here, last'.obj, "facts")) :
                    MembersOf(Post, last'.obj, "facts")[i]
                        = MembersOf(Here, last'.obj, "facts")[i]

\* the sections that have no facts set
NoFacts(W) ==
    {o \in 1..Len(W.objs) :
        W.objs[o].kind = "CardSection" /\ ~HasKey(W.objs[o].attrs, "facts")}

\* C13 as amended: set_facts replaces the facts, add_fact and add_facts
\* append after the existing facts and keep them in their order, a mapping
\* gives one fact per pair in its order; on a section with no facts set,
\* set_facts(m), add_facts(m), add_fact over the pairs of m and the
\* constructor with facts = m give the same payload for every mapping m
\* that is not empty.
C13_Facts ==
    [][/\ FactsChange
       /\ \A o \in NoFacts(Post) : \A m \in {Dict1, Dict2} : SamePayloads(Post, o, m)]_vars

\* C13 as stated: the four ways give the same payload for every mapping.
C13_Original ==
    [][/\ FactsChange
       /\ \A o \in NoFacts(Post) : \A m \in {Dict0, Dict1, Dict2} :
             SamePayloads(Post, o, m)]_vars

\* a section that had one fact was given a mapping by add_facts and has
\* two facts, while another section has none
C13_Witness ==
    /\ last.op = "add_facts" /\ last.err = ""
    /\ last.args[1].a = ArgVal(Dict1)
    /\ Len(MembersOf(Here, last.obj, "facts")) = 2
    /\ NoFacts(Here) # {}

----------------------------------------------------------------------------
(* HeroSpec: the hero image of a section *)

DictImage == PyDict(<< <<"a", "u">> >>)

\* the forms a hero image is given in; a section is no image
HeroForms ==
    {U, A, Dict1, DictImage} \cup {PyRef(i) : i \in Ids}

HeroNext ==
    \/ \E kw \in {<<>>, << Kw("title", A) >>} : New("CardSection", kw)
    \/ \E u \in {U, B}, kw \in {<<>>, << Kw("title", A) >>} :
          New("ImageObject", << Kw("image", u) >> \o kw)
    \/ \E o \in OfKind("CardSection"), v \in HeroForms : SetItem(o, "hero_image", ArgVal(v))
    \/ \E o \in OfKind("ImageObject"), t \in {A, B} : SetItem(o, "title", ArgVal(t))

HeroSpec == Init /\ [][HeroNext]_vars

\* the image element with exactly the fields es
IsImage(W, v, es) ==
    /\ v.t = "obj"
    /\ W.objs[v.n].kind = "ImageObject"
    /\ W.objs[v.n].attrs = es

\* the fields of the image that the value v of a set_hero_image describes:
\* those of an element, the URL of a str, the title and URL of a mapping
Described(v) ==
    CASE v.t = "obj" -> objs[v.n].attrs
      [] v.t = "str" -> << Entry("image", v) >>
      [] v.t = "dict" ->
            << Entry("image", PyStr(v.d[1][2])), Entry("title", PyStr(v.d[1][1])) >>

\* what the section o renders once its hero image is set to v
HeroPayload(W, o, v) == GetPayload(SetField(W, o, "hero_image", v).W, o)

\* what the section o renders with a new image element of the fields es
HeroElement(W, o, es) ==
    HeroPayload(Construct(W, "ImageObject", es).W, o, PyRef(Len(W.objs) + 1))

\* the payloads of section o under every form that describes the fields es:
\* an element, and a str when there is no title, a mapping when there is one
HeroPayloads(W, o, es) ==
    {HeroElement(W, o, es)}
        \cup (IF Len(es) = 1 THEN {HeroPayload(W, o, es[1].v)}
              ELSE {HeroPayload(W, o, PyDict(<< << es[2].v.s, es[1].v.s >> >>))})

\* this step is set_hero_image on a section with an image element, a str
\* or a single-entry mapping
HeroCall ==
    /\ steps' # steps
    /\ last'.op = "set" /\ last'.kind = "CardSection"
    /\ last'.args[1].k = "hero_image"
    /\ LET v == last'.args[1].a.v IN
          \/ v.t = "str"
          \/ v.t = "dict" /\ Len(v.d) = 1
          \/ v.t = "obj" /\ objs[v.n].kind = "ImageObject"

\* C14: set_hero_image succeeds on an image element, a URL string and a
\* single-entry title-to-URL mapping, and stores an image element: the
\* element itself, unchanged; a new element with that URL and no title; a
\* new element with the mapping's key as title and its value as URL.  The
\* section renders the same under every form that describes the same URL
\* and title.
C14_HeroImage ==
    [][HeroCall =>
         LET v == last'.args[1].a.v IN
         /\ last'.err = ""
         /\ IsImage(Post, Stored, Described(v))
         /\ v.t = "obj" => Stored = v
         /\ v.t # "obj" => Stored.n = Len(objs) + 1
         /\ HeroPayloads(Here, last'.obj, Described(v)) = {GetPayload(Post, last'.obj)}]_vars

\* a section was given its hero image as a mapping while an element with
\* the same title and URL exists
C14_Witness ==
    /\ last.op = "set" /\ last.err = "" /\ last.kind = "CardSection"
    /\ last.args[1] = Kw("hero_image", DictImage)
    /\ \E i \in OfKind("ImageObject") :
          /\ PyRef(i) # Get(objs[last.obj].attrs, "hero_image")
          /\ objs[i].attrs = objs[Get(objs[last.obj].attrs, "hero_image").n].attrs

----------------------------------------------------------------------------
(* StyleSpec: the style of a multiple-choice input *)

Normal == PyStr("normal")
Expanded == PyStr("expanded")
Bad == PyStr("invalid")

Styles == {Normal, Expanded, Bad, PyStr("Normal"), PyStr("")}

StyleNext ==
    \/ \E kw \in {<<>>, << Kw("id", A) >>} : New("MultipleChoiceInput", kw)
    \/ \E v \in Styles, kw \in {<<>>, << Kw("id", A) >>} :
          New("MultipleChoiceInput", kw \o << Kw("style", v) >>)
    \/ \E o \in OfKind("MultipleChoiceInput"), v \in Styles \cup {PyInt(1), True} :
          SetItem(o, "style", ArgVal(v))
    \/ \E o \in OfKind("MultipleChoiceInput") : SetItem(o, "is_multi_select", ArgVal(True))

StyleSpec == Init /\ [][StyleNext]_vars

\* this step's call gives a multiple-choice input the style v
GivesStyle(v) ==
    /\ steps' # steps
    /\ last'.kind = "MultipleChoiceInput"
    /\ \E i \in 1..Len(last'.args) : last'.args[i] = Kw("style", v)

\* C15: the style of a MultipleChoiceInput, if set, is "normal" or
\* "expanded" in every state; giving it any other string fails with
\* ValueError, in the constructor, which then makes no instance, and in a
\* later set, which leaves the instance, its style included, as it was.
C15_Style ==
    [][/\ \A o \in 1..Len(objs') :
             objs'[o].kind = "MultipleChoiceInput" /\ HasKey(objs'[o].attrs, "style")
                => Get(objs'[o].attrs, "style") \in {Normal, Expanded}
       /\ \A v \in Styles \ {Normal, Expanded} :
             GivesStyle(v) => /\ last'.err = "ValueError"
                              /\ last'.what = "invalid value"
                              /\ objs' = objs /\ lists' = lists
       /\ \A v \in {Normal, Expanded} :
             GivesStyle(v) => /\ last'.err = ""
                              /\ Get(objs'[last'.obj].attrs, "style") = v]_vars

\* an input whose style is "normal" was given the style "invalid"
C15_Witness ==
    /\ last.op = "set" /\ last.err = "ValueError"
    /\ last.args[1] = Kw("style", Bad)
    /\ HasKey(objs[last.obj].attrs, "style")
    /\ Get(objs[last.obj].attrs, "style") = Normal
    /\ \E o \in OfKind("MultipleChoiceInput") : ~HasKey(objs[o].attrs, "style")

----------------------------------------------------------------------------
(* ActionCardSpec: the inputs and actions of an action card *)

\* an element or a list of elements
ElementForms(S) ==
    {ArgVal(PyRef(i)) : i \in S} \cup {ArgList(<< PyRef(i) >>) : i \in S}

ActionCardNext ==
    \/ \E kw \in {<<>>, << Kw("name", A) >>} : New("ActionCard", kw)
    \/ \E k \in {"TextInput", "DateInput"} : New(k, <<>>)
    \/ New("HttpPostAction", << Kw("name", A), Kw("target", U) >>)
    \/ \E o \in OfKind("ActionCard"), f \in {"inputs", "actions"}, x \in ElementForms(Ids) :
          SetItem(o, f, x)
    \/ \E o \in OfKind("ActionCard"), x \in ElementForms(Ids) : AddInputs(o, x)
    \/ \E o \in OfKind("ActionCard"), x \in ElementForms(Ids) : AddActions(o, x)

ActionCardSpec == Init /\ [][ActionCardNext]_vars

\* the elements the argument a gives
ArgItems(a) == IF a.form = "val" THEN << a.v >> ELSE a.items

\* this step is the call op with elements of the type
AddsItems(op, type) ==
    /\ steps' # steps
    /\ last'.op = op
    /\ \A i \in 1..Len(ArgItems(last'.args[1].a)) :
          IsInstance(Here, ArgItems(last'.args[1].a)[i], type)

\* the call of this step left field f of its instance the members it had
\* followed by the elements it was given
AppendsItems(f) ==
    /\ last'.err = ""
    /\ MembersOf(Post, last'.obj, f)
          = MembersOf(Here, last'.obj, f) \o ArgItems(last'.args[1].a)

\* C16: after add_inputs(x) the inputs of an ActionCard are the inputs it
\* had (none if they were never set) followed by the inputs given in x, in
\* order; likewise add_actions(y) for the actions.
C16_Appends ==
    [][/\ AddsItems("add_inputs", "Input") => AppendsItems("inputs")
       /\ AddsItems("add_actions", "Action") => AppendsItems("actions")]_vars

----------------------------------------------------------------------------
(* The sections and actions of a card, in CardSpec *)

\* self._attrs.get(field, []), append(v), _set_field(field, ...) on a state W
AddToCall(W, o, field, v) ==
    SetField(Appended(W, o, field, v), o, field, AppendedTo(W, o, field))

\* the card the constructor makes from the fields of o and field = v
CardByNew(W, o, field, v) ==
    Construct(W, "MessageCard", W.objs[o].attrs \o << Entry(field, v) >>)

\* on card o, which has no such field set, set with the element v, add of
\* v and the constructor keyword give the same payload
SameCard(W, o, field, v) ==
    /\ GetPayload(AddToCall(W, o, field, v).W, o)
          = GetPayload(SetField(W, o, field, v).W, o)
    /\ GetPayload(CardByNew(W, o, field, v).W, CardByNew(W, o, field, v).val.n)
          = GetPayload(SetField(W, o, field, v).W, o)

\* this step calls op on a card with one element of the type for the field
CardCall(op, field, type) ==
    /\ steps' # steps
    /\ last'.op = op /\ last'.kind = "MessageCard"
    /\ last'.args[1].k = field
    /\ last'.args[1].a.form = "val"
    /\ IsInstance(Here, last'.args[1].a.v, type)

\* add appends the element, set makes the field the one-element list
CardField(field, type) ==
    /\ CardCall("add", field, type)
          => /\ last'.err = ""
             /\ MembersOf(Post, last'.obj, field)
                   = Append(MembersOf(Here, last'.obj, field), last'.args[1].a.v)
    /\ CardCall("set", field, type)
          => /\ last'.err = ""
             /\ MembersOf(Post, last'.obj, field) = << last'.args[1].a.v >>
    /\ \A o \in 1..Len(objs') :
          (objs'[o].kind = "MessageCard" /\ ~HasKey(objs'[o].attrs, field))
             => \A v \in 1..Len(objs') :
                   IsInstance(Post, PyRef(v), type) => SameCard(Post, o, field, PyRef(v))

\* C17: add_section(s) appends s after the sections of the card, which stay
\* in their order, and add_potential_action(a) does so for the actions;
\* set_sections and set_potential_actions with a single element leave the
\* one-element list; on a card without sections (actions), set with one
\* element, add of it and the constructor keyword render the same payload.
C17_CardLists ==
    [][/\ CardField("sections", "CardSection")
       /\ CardField("potential_action", "Action")]_vars

\* the members of the sequence-valued fields of o that are set have the
\* element type of their field
ElementsTyped(W, o) ==
    \A i \in 1..Len(W.objs[o].attrs) :
        LET f == W.objs[o].attrs[i].k
            v == W.objs[o].attrs[i].v
        IN (HasField(Fields(W, W.objs[o].kind), f)
                /\ FieldOf(Fields(W, W.objs[o].kind), f).iter /\ v.t = "list")
              => \A j \in 1..Len(W.lists[v.n].items) :
                    IsInstance(W, W.lists[v.n].items[j],
                               FieldOf(Fields(W, W.objs[o].kind), f).type)

\* C18: in every state, the states after a call that raised included, every
\* member of every sequence-valued field that is set has the element type
\* of the field.
C18_ElementTypes == \A o \in Ids : ElementsTyped(Here, o)

----------------------------------------------------------------------------
(* NameSpec: the transform from field name to payload key.  A string is    *)
(* drawn, the transform is applied to it and then to its own result.       *)

MaxLen == 4

Alphabet == {"a", "b", "B", "_"}

\* a str spelled out as its characters
PyChars(cs) == [t |-> "str", s |-> "", n |-> 0, d |-> cs]

\* the strings the transform is given: the field names of the schemas and
\* every string over the alphabet up to the length MaxLen
Strings ==
    {Chars(f) : f \in AllNames} \cup UNION {[1..k -> Alphabet] : k \in 0..MaxLen}

NameInit ==
    /\ objs = <<>>
    /\ lists = <<>>
    /\ inputFields = Input_fields
    /\ steps = 0
    /\ requests = <<>>
    /\ opener = PyNone
    /\ \E cs \in Strings :
          last = Did("", "", 0, << Kw("string", PyChars(cs)) >>, Ok(Here, PyNone))

\* _snake_to_dromedary_case(string), first of the string drawn and then of
\* what the call before returned
SnakeCase ==
    /\ steps < MaxSteps
    /\ steps' = steps + 1
    /\ last' = Did("_snake_to_dromedary_case", "", 0,
                   << Kw("string", IF last.op = "" THEN last.args[1].a.v ELSE last.ret) >>,
                   Ok(Here, PyChars(SnakeToDromedaryCase(
                        IF last.op = "" THEN last.args[1].a.v.d ELSE last.ret.d))))
    /\ UNCHANGED << objs, lists, inputFields, requests, opener >>

NameSpec == NameInit /\ [][SnakeCase]_vars

\* the word with its first letter as a capital
Capitalized(w) == IF w = <<>> THEN w ELSE << ToUpper(Head(w)) >> \o Tail(w)

\* the first word followed by the later words capitalized
RECURSIVE CapitalizedFrom(_, _)
CapitalizedFrom(words, i) ==
    IF i > Len(words) THEN <<>>
    ELSE (IF i = 1 THEN words[i] ELSE Capitalized(words[i])) \o CapitalizedFrom(words, i + 1)

\* lowercase words joined by underscores
IsSnake(cs) == \A i \in 1..Len(cs) : IsLower(cs[i]) \/ cs[i] = "_"

\* the table of a kind with everything its constructor adds to it
FullTable(kind) ==
    IF kind \in InputKinds
    THEN DictUpdate(Input_fields,
            TextInput_sub_fields \o DateInput_sub_fields \o MultipleChoiceInput_sub_fields)
    ELSE Fields(Here, kind)

KeyOfName(f) == SnakeToDromedaryCase(Chars(f))

\* in every schema that has the field f, no other field has the key, and
\* the key is no reserved one
OwnKey(f, key) ==
    /\ key \notin {Chars("@type"), Chars("@context")}
    /\ \A kind \in Kinds :
          HasField(FullTable(kind), f)
             => \A i \in 1..Len(FullTable(kind)) :
                   FullTable(kind)[i].name # f => KeyOfName(FullTable(kind)[i].name) # key

\* C19: the transform returns a name without underscore as it is; of a name
\* of lowercase words joined by underscores it returns the first word
\* followed by the later words, each with its first letter as a capital;
\* applied to what it returned it returns the same; and in the schema of
\* every kind two different field names have different keys, none of them
\* "@type" or "@context".
C19_Keys ==
    last.op = "_snake_to_dromedary_case"
       => LET string == last.args[1].a.v.d
              key == last.ret.d
          IN /\ (\A i \in 1..Len(string) : string[i] # "_") => key = string
             /\ IsSnake(string) => key = CapitalizedFrom(Split(string, "_", <<>>), 1)
             /\ SnakeToDromedaryCase(key) = key
             /\ \A f \in AllNames : Chars(f) = string => OwnKey(f, key)

\* body_content_type was turned into bodyContentType and that into itself
C19_Witness ==
    /\ last.op = "_snake_to_dromedary_case"
    /\ steps = 2
    /\ last.args[1].a.v.d = << "b", "o", "d", "y", "C", "o", "n", "t", "e", "n", "t", "T", "y", "p", "e" >>
    /\ last.ret = last.args[1].a.v

----------------------------------------------------------------------------
(* SendSpec: cards are built and sent *)

V == PyStr("v")
Https == PyDict(<< << "https", "p" >> >>)

SendNext ==
    \/ \E kw \in {<<>>, << Kw("title", A) >>, << Arg("sections", ArgList(<<>>)) >>} :
          New("MessageCard", kw)
    \/ New("CardSection", << Kw("title", A) >>)
    \/ \E o \in Cards, v \in {PyRef(i) : i \in Parts} \cup {A} : AddSection(o, v)
    \/ \E o \in Cards, url \in {U, V}, proxy \in {PyNone, A, Https}, fails \in BOOLEAN :
          Send(o, url, proxy, fails)

SendSpec == Init /\ [][SendNext]_vars

\* C20: every call of send makes exactly one request, to the URL it was
\* given, with the header Content-Type: application/json and the compact
\* JSON payload of the card as body; no other step makes a request, so n
\* calls make n requests; a request that fails is told to the caller and
\* not made again; and send leaves the card as it is.
C20_OneRequest ==
    [][IF steps' # steps /\ last'.op = "send"
       THEN /\ Len(requests') = Len(requests) + 1
            /\ SubSeq(requests', 1, Len(requests)) = requests
            /\ requests'[Len(requests')].url = last'.args[1].a.v
            /\ requests'[Len(requests')].headers
                  = << << "Content-Type", "application/json" >> >>
            /\ requests'[Len(requests')].data = Encode(JsonPayload(Here, last'.obj))
            /\ last'.err \in {"", "URLError"}
            /\ UNCHANGED << objs, lists, inputFields >>
       ELSE requests' = requests]_vars

----------------------------------------------------------------------------
(* The field tables, in InputSpec *)

\* the field names the kind accepts in the state W
Accepted(W, kind) == {Fields(W, kind)[i].name : i \in 1..Len(Fields(W, kind))}

\* C21: no step, the construction of an instance or a set on one, adds,
\* removes or changes an entry of the field table of any kind, so every
\* kind accepts the same field names in every state.
C21_TablesReadOnly ==
    [][\A kind \in Kinds :
          /\ Fields(Post, kind) = Fields(Here, kind)
          /\ Accepted(Post, kind) = Accepted(Here, kind)]_vars

----------------------------------------------------------------------------
(* AliasSpec: instances whose sequence field is set from the sequence read *)
(* back from another instance                                              *)

\* the sequences read back from field f of the instances of the kind
ReadBack(kind, f) ==
    {Get(objs[p].attrs, f) : p \in {q \in OfKind(kind) : HasKey(objs[q].attrs, f)}}

AliasNext ==
    \/ \E kw \in {<<>>} \cup {<< Kw("headers", h) >> :
                                h \in {Dict1} \cup ReadBack("HttpPostAction", "headers")} :
          New("HttpPostAction", << Kw("name", A), Kw("target", U) >> \o kw)
    \/ \E kw \in {<<>>} \cup {<< Kw("facts", h) >> :
                                h \in {Dict1} \cup ReadBack("CardSection", "facts")} :
          New("CardSection", kw)
    \/ \E o \in OfKind("HttpPostAction"), h \in ReadBack("HttpPostAction", "headers") :
          SetItem(o, "headers", ArgVal(h))
    \/ \E o \in OfKind("CardSection"), h \in ReadBack("CardSection", "facts") :
          SetItem(o, "facts", ArgVal(h))
    \/ \E o \in OfKind("HttpPostAction") : AddHeader(o, ArgVal(Dict1))
    \/ \E o \in OfKind("CardSection") : AddFacts(o, ArgVal(Dict1))

AliasSpec == Init /\ [][AliasNext]_vars

RECURSIVE Holds(_, _, _)
\* whether instance p holds instance o: in a field, in a sequence of a
\* field, or in an instance it holds
Holds(W, p, o) ==
    \E i \in 1..Len(W.objs[p].attrs) :
        LET v == W.objs[p].attrs[i].v IN
        \/ v.t = "obj" /\ (v.n = o \/ Holds(W, v.n, o))
        \/ /\ v.t = "list"
           /\ \E j \in 1..Len(W.lists[v.n].items) :
                 /\ W.lists[v.n].items[j].t = "obj"
                 /\ \/ W.lists[v.n].items[j].n = o
                    \/ Holds(W, W.lists[v.n].items[j].n, o)

\* the members of every sequence field of p
SequencesOf(W, p) ==
    [i \in 1..Len(W.objs[p].attrs) |->
        IF W.objs[p].attrs[i].v.t = "list"
        THEN W.lists[W.objs[p].attrs[i].v.n].items ELSE <<>>]

\* C22: an append operation called on an instance changes the sequence
\* field of that instance only: every other instance that neither holds it
\* nor is held by it keeps its field values, the members of its sequences
\* and its payload, also when its field was set from the sequence read back
\* from the instance appended to.
C22_NoSharing ==
    [][(steps' # steps /\ last'.op \in {"add_header", "add_facts"})
          => \A p \in Ids :
                (p # last'.obj /\ ~Holds(Here, p, last'.obj) /\ ~Holds(Here, last'.obj, p))
                   => /\ objs'[p] = objs[p]
                      /\ SequencesOf(Post, p) = SequencesOf(Here, p)
                      /\ GetPayload(Post, p) = GetPayload(Here, p)]_vars

----------------------------------------------------------------------------
(* ScalarSpec: sets on the fields that take one value *)

ScalarValues == {A, True, PyInt(1), PyBytes(1), PyBytes(0)}

ScalarNext ==
    \/ \E k \in {"CardSection", "TextInput"} : New(k, <<>>)
    \/ New("ImageObject", << Kw("image", U) >>)
    \/ \E o \in OfKind("CardSection"),
          v \in {U, DictImage, Dict2, Dict0, PyInt(1)} \cup {PyRef(i) : i \in Ids} :
          SetItem(o, "hero_image", ArgVal(v))
    \/ \E o \in OfKind("CardSection"), f \in {"title", "start_group"}, v \in ScalarValues :
          SetItem(o, f, ArgVal(v))
    \/ \E o \in OfKind("TextInput"), f \in {"max_length", "is_multiline", "id"},
          v \in ScalarValues :
          SetItem(o, f, ArgVal(v))

ScalarSpec == Init /\ [][ScalarNext]_vars

\* the values of the fields of o that take one value have the expected type
ScalarsTyped(W, o) ==
    \A i \in 1..Len(W.objs[o].attrs) :
        (HasField(Fields(W, W.objs[o].kind), W.objs[o].attrs[i].k)
            /\ ~FieldOf(Fields(W, W.objs[o].kind), W.objs[o].attrs[i].k).iter)
          => IsInstance(W, W.objs[o].attrs[i].v,
                        FieldOf(Fields(W, W.objs[o].kind), W.objs[o].attrs[i].k).type)

----------------------------------------------------------------------------
(* Calls that raise, in CardSpec *)

\* C24: a set or an add operation that raises leaves its instance as it
\* was: the values of its fields, the members of its sequences and its
\* payload are those before the call.
C24_FailedUnchanged ==
    [][(steps' # steps /\ last'.err # "" /\ last'.op # "new")
          => /\ objs'[last'.obj] = objs[last'.obj]
             /\ SequencesOf(Post, last'.obj) = SequencesOf(Here, last'.obj)
             /\ PayloadRaises(Post, last'.obj) = PayloadRaises(Here, last'.obj)
             /\ GetPayload(Post, last'.obj) = GetPayload(Here, last'.obj)]_vars

----------------------------------------------------------------------------
(* RenderSpec: instances are rendered while others are constructed and set *)

RenderNext ==
    \/ \E kw \in {<<>>, << Kw("id", A) >>} : New("TextInput", kw)
    \/ \E k \in {"DateInput", "MultipleChoiceInput"} : New(k, <<>>)
    \/ New("CardSection", << Kw("hero_image", U) >>)
    \/ \E o \in Ids, x \in {<< "include_time", True >>, << "title", A >>} :
          SetItem(o, x[1], ArgVal(x[2]))
    \/ \E o \in Ids, fmt \in {"python", "json"} : Render(o, fmt)

RenderSpec == Init /\ [][RenderNext]_vars

RECURSIVE StateOf(_, _)
\* everything instance p holds: its reserved entries and its fields with
\* the instances and the sequences in them spelled out
StateOf(W, p) ==
    [kind |-> W.objs[p].kind,
     payload |-> W.objs[p].payload,
     attrs |-> [i \in 1..Len(W.objs[p].attrs) |->
        LET v == W.objs[p].attrs[i].v IN
        [k |-> W.objs[p].attrs[i].k,
         v |-> IF v.t \in {"obj", "list"} THEN PyNone ELSE v,
         o |-> IF v.t = "obj" THEN << StateOf(W, v.n) >> ELSE <<>>,
         l |-> IF v.t = "list"
               THEN [j \in 1..Len(W.lists[v.n].items) |->
                        IF W.lists[v.n].items[j].t = "obj"
                        THEN StateOf(W, W.lists[v.n].items[j].n)
                        ELSE [kind |-> "", payload |-> <<>>, attrs |-> <<>>]]
               ELSE <<>>]]]

\* C25: get_payload, in either format, changes no field value and no
\* reserved entry of any instance, and it returns what the instance renders;
\* and over every step that leaves an instance and the instances it holds
\* as they were, the construction of instances of any kind included, the
\* payload of the instance, in either format, stays the same, so two
\* renders with no mutation in between are equal.
C25_PureRender ==
    [][/\ (steps' # steps /\ last'.op = "get_payload")
             => /\ UNCHANGED << objs, lists, inputFields >>
                /\ last'.err = ""
                /\ last'.ret.d = IF last'.ret.t = "json" THEN JsonPayload(Post, last'.obj)
                                 ELSE GetPayload(Post, last'.obj)
       /\ \A p \in Ids :
             StateOf(Post, p) = StateOf(Here, p)
                => /\ GetPayload(Post, p) = GetPayload(Here, p)
                   /\ JsonPayload(Post, p) = JsonPayload(Here, p)]_vars

\* a text input was rendered, a date input was then constructed, which
\* added include_time to the shared table, and the text input was rendered
\* again
C25_Witness ==
    /\ last.op = "get_payload" /\ last.err = ""
    /\ objs[last.obj].kind = "TextInput"
    /\ HasKey(objs[last.obj].attrs, "id")
    /\ steps = 4
    /\ HasField(inputFields, "include_time")
    /\ Len(objs) = 2 /\ last.obj = 1 /\ objs[2].kind = "DateInput"

----------------------------------------------------------------------------
(* The proxy of a send, in SendSpec *)

\* the proxies a send called with the proxy is to be delivered through:
\* none without a proxy, the mapping as given, any other proxy for https
ProxyOf(proxy) ==
    IF proxy = PyNone THEN PyNone
    ELSE IF proxy.t = "dict" THEN proxy
    ELSE PyDict(<< << "https", proxy.s >> >>)

\* C26: the request of a send goes through the proxy that call was given
\* and through no other: without proxy there is no proxy override, whatever
\* earlier sends of this or another card were given; a proxy that is no
\* mapping is the proxy for https only; a mapping is used as given.
C26_ProxyScope ==
    [][(steps' # steps /\ last'.op = "send" /\ Len(requests') > Len(requests))
          => requests'[Len(requests')].via = ProxyOf(last'.args[2].a.v)]_vars

----------------------------------------------------------------------------
(* Appending to a field that holds a tuple, in CardSpec, HttpSpec, UriSpec *)

\* field f of the instance of this step's call holds a tuple
TupleHeld(f) ==
    /\ HasKey(objs[last'.obj].attrs, f)
    /\ lists[Get(objs[last'.obj].attrs, f).n].tuple

\* the members of field f after this step are those before it followed by
\* one more, and the call returned
OneMore(f) ==
    /\ last'.err = ""
    /\ Len(MembersOf(Post, last'.obj, f)) = Len(MembersOf(Here, last'.obj, f)) + 1
    /\ SubSeq(MembersOf(Post, last'.obj, f), 1, Len(MembersOf(Here, last'.obj, f)))
          = MembersOf(Here, last'.obj, f)

\* C27: on a field that was set with a tuple, add_section and
\* add_potential_action with an element of the field's type, add_header
\* with a header and add_target with a platform that is not present return
\* and leave the members the field had followed by the new one.
C27_TupleAppend ==
    [][steps' # steps =>
          /\ (last'.op = "add" /\ TupleHeld(last'.args[1].k)
                /\ IsInstance(Here, last'.args[1].a.v,
                       FieldOf(Fields(Here, last'.kind), last'.args[1].k).type))
                => /\ OneMore(last'.args[1].k)
                   /\ MembersOf(Post, last'.obj, last'.args[1].k)
                         = Append(MembersOf(Here, last'.obj, last'.args[1].k),
                                  last'.args[1].a.v)
          /\ (last'.op = "add_header" /\ TupleHeld("headers")
                /\ last'.args[1].a.form = "val" /\ last'.args[1].a.v.t = "obj"
                /\ objs[last'.args[1].a.v.n].kind = "Header")
                => /\ OneMore("headers")
                   /\ MembersOf(Post, last'.obj, "headers")
                         = Append(MembersOf(Here, last'.obj, "headers"), last'.args[1].a.v)
          /\ (last'.op = "add_target" /\ TupleHeld("targets")
                /\ \A i \in 1..Len(OsList(Here, last'.obj)) :
                      OsList(Here, last'.obj)[i] # last'.args[1].a.v)
                => /\ OneMore("targets")
                   /\ IsTarget(Post, MembersOf(Post, last'.obj, "targets")[
                                        Len(MembersOf(Post, last'.obj, "targets"))],
                               last'.args[1].a.v, last'.args[2].a.v)]_vars

====
